---- MODULE Spec2Model ----
(***************************************************************************)
(* The Swarm orchestrator of src/swarm/src/swarm.ts: the positions table,  *)
(* the trade-history ledger and the asynchronous operations that read and  *)
(* write them (Executor buy/sell, manual buy/sell, Risk Manager, Price     *)
(* Updater).  Every `await` of the source is a suspension point: an        *)
(* operation is a sequence of atomic steps, one per stretch of code        *)
(* between two awaits, and steps of different operations interleave.       *)
(*                                                                         *)
(* Gateways (wallet balance, DexScreener, Jupiter swap) are black boxes:   *)
(* what they return is drawn from small sets at the step that receives it. *)
(*                                                                         *)
(* Amounts of SOL are integers in units of 0.0001 SOL.  Prices are         *)
(* integers chosen so that every pnl percentage is an exact integer.       *)
(* A transaction hash and a Date.now() stamp are both modelled by the      *)
(* ledger sequence number of the trade they belong to (unique, growing);   *)
(* 0 stands for SQL NULL / undefined / "".                                 *)
(***************************************************************************)
EXTENDS Integers, Sequences, FiniteSets, TLC

VARIABLES
  running,    \* Swarm.running
  wallet,     \* TRUE iff Swarm.wallet is set (a wallet key was configured)
  config,     \* SwarmConfig, immutable per run
  agents,     \* Swarm.agents: agent id -> status
  positions,  \* table positions: row id (1..) -> row
  history,    \* table trade_history, in insertion order
  swaps,      \* the swap gateway's own record of the calls it has answered
  hunter,     \* Hunter ticks: the executeTrade call each one is awaiting
  mbuy,       \* manualBuy calls in progress
  msell,      \* manualSell calls in progress
  risk,       \* runRiskManager ticks in progress
  updater,    \* runPriceUpdater ticks in progress
  intervals,  \* Swarm.intervals: the repeating timers registered
  starter,    \* the start() call in progress, if any
  scanner,    \* runNarrativeScanner ticks in progress
  narratives, \* table narratives
  stopped,    \* TRUE iff stop() was called since start() was last called
  cycles,     \* runCoinHunter ticks in progress
  scanned,    \* table scanned_tokens: the row of each address
  clock,      \* Date.now(), in minutes
  scoreCalls  \* the reasoning gateway's own record: when each address was
              \* last sent to it for a score

\* the orchestrator's life cycle, left alone by the trading operations
life == <<intervals, starter, scanner, narratives, stopped>>

\* the Hunter's candidate loop
hunt == <<cycles, scanned, clock, scoreCalls>>

vars == <<running, wallet, config, agents, positions, history, swaps,
          hunter, mbuy, msell, risk, updater, life, hunt>>

(***************************************************************************)
(* Bounds of the model.                                                    *)
(***************************************************************************)
MaxTrades == 3    \* swap calls answered in one run

HunterTicks == {1, 2}  \* Hunter ticks that may overlap
ManualBuys == {1}      \* POST /buy requests that may overlap
ManualSells == {1}     \* POST /sell requests that may overlap
RiskTicks == {1}       \* Risk Manager ticks that may overlap
UpdaterTicks == {1}    \* Price Updater ticks that may overlap
ScannerTicks == {1}    \* Narrative Scanner ticks that may overlap

Tokens == {"A", "B"}
EntryPrices == {100}         \* a token's price when it is bought
Prices == {69, 70, 100, 200}  \* a token's live price afterwards
Liquidities == {2000, 3000}
Balances == {100, 2000}
ManualAmounts == {500}
Scores == {85}
CycleScores == {75, 85, 90}
Narratives == {"Unknown"}
CycleTicks == {1, 2}   \* runCoinHunter ticks that may overlap; tick c makes
                       \* its executeTrade calls as hunter[c]
MaxClock == 6          \* minutes the clock runs for

\* sixteen candidates, one more than a tick scores
Candidates ==
  <<"A", "B", "C", "D", "E", "F", "G", "H",
    "I", "J", "K", "L", "M", "N", "O", "P">>
Addresses == {Candidates[i] : i \in 1..Len(Candidates)}

NULL == 0
DustFloor == 50
LiquidityFloor == 3000

\* config.scanIntervalMs, by its default (282; index.ts 129)
scanInterval == 60000

\* the four timers start() registers (284-289): the agent run and the period
Timers ==
  << [task |-> "narrative", ms |-> scanInterval * 2],
     [task |-> "hunter", ms |-> scanInterval],
     [task |-> "risk", ms |-> 30000],
     [task |-> "updater", ms |-> 20000] >>

\* this.intervals holds a timer that runs the agent
Scheduled(task) == \E i \in 1..Len(intervals) : intervals[i].task = task

AgentIds == {"narrative", "hunter", "whale", "risk", "executor", "backtest"}

\* SwarmConfig: the defaults of index.ts 124-128 with amounts in 0.0001 SOL;
\* openrouterKey, rpcUrl and walletKey are TRUE iff the string is not empty;
\* maxConcurrentTrades 1 is Scenario A's, 2 lets a second buy be tried.
BuyConfigs ==
  { [openrouterKey |-> TRUE, rpcUrl |-> TRUE, walletKey |-> w,
     maxPositionSol |-> 500, stopLossPct |-> 30, takeProfitPct |-> 100,
     maxConcurrentTrades |-> n, minScoreToTrade |-> 80] :
       n \in {1, 2}, w \in BOOLEAN }

\* stop-loss 30 / take-profit 100, and the boundary configuration 0 / 0 in
\* which a pnl of 0 meets both rules
RiskConfigs ==
  { [openrouterKey |-> TRUE, rpcUrl |-> TRUE, walletKey |-> TRUE,
     maxPositionSol |-> 500, stopLossPct |-> sl, takeProfitPct |-> 100,
     maxConcurrentTrades |-> 1, minScoreToTrade |-> 80] : sl \in {30} }
  \cup
  { [openrouterKey |-> TRUE, rpcUrl |-> TRUE, walletKey |-> TRUE,
     maxPositionSol |-> 500, stopLossPct |-> 0, takeProfitPct |-> 0,
     maxConcurrentTrades |-> 1, minScoreToTrade |-> 80] }

Min(a, b) == IF a <= b THEN a ELSE b

(***************************************************************************)
(* Gateway outcomes.                                                       *)
(***************************************************************************)
\* connection.getBalance: a balance, or a thrown RPC error.
BalanceOutcomes ==
  [ok : {TRUE}, bal : Balances] \cup [ok : {FALSE}, bal : {0}]

\* getTokenByAddress: the live token, or null (not found / fetch failed).
TokenOutcomes ==
  [found : {TRUE}, price : Prices \cup EntryPrices, liquidity : Liquidities]
    \cup [found : {FALSE}, price : {0}, liquidity : {0}]

\* What happens inside executeBuy / executeSell: the swap confirms, or some
\* call throws an error e (e.message may be empty).  price is the sell's
\* outSol / tokenAmount, which may be 0.
SwapOutcomes ==
  [ok : {TRUE}, msg : {""}, price : {0}]
    \cup [ok : {FALSE}, msg : {"swap failed", ""}, price : {0}]
SellOutcomes ==
  [ok : {TRUE}, msg : {""}, price : {0, 70}]
    \cup [ok : {FALSE}, msg : {"swap failed", ""}, price : {0}]

\* e.message || String(e)
ErrorText(msg) == IF msg # "" THEN msg ELSE "Error"

\* TradeResult of executeBuy for the outcome o; tx is the hash the chain
\* gives a confirmed transaction.  Absent fields are NULL / "".
executeBuy(o, solAmount, tx) ==
  IF o.ok
    THEN [success |-> TRUE, txHash |-> tx, error |-> "",
          inputAmount |-> solAmount, price |-> o.price]
    ELSE [success |-> FALSE, txHash |-> NULL, error |-> ErrorText(o.msg),
          inputAmount |-> solAmount, price |-> 0]

executeSell(o, tx) ==
  IF o.ok
    THEN [success |-> TRUE, txHash |-> tx, error |-> "", price |-> o.price]
    ELSE [success |-> FALSE, txHash |-> NULL, error |-> ErrorText(o.msg),
          price |-> 0]

(***************************************************************************)
(* Tables.                                                                 *)
(***************************************************************************)
Ids == DOMAIN positions

\* SELECT * FROM positions WHERE status = 'OPEN', in rowid order
RECURSIVE OpenFrom(_)
OpenFrom(i) ==
  IF i > Len(positions) THEN <<>>
  ELSE IF positions[i].status = "OPEN"
    THEN <<i>> \o OpenFrom(i + 1)
    ELSE OpenFrom(i + 1)

OpenIds == {i \in Ids : positions[i].status = "OPEN"}

\* SELECT COUNT(*) FROM positions WHERE status = 'OPEN'
OpenCount == Cardinality(OpenIds)

\* SELECT * FROM positions WHERE token_address = ? AND status = 'OPEN'
Holding(token) == \E i \in OpenIds : positions[i].tokenAddress = token

\* The sequence number of the next ledger row: stands for the hash of the
\* transaction being recorded and for Date.now() at that moment.
NextTx == Len(history) + 1
Now == Len(history) + 1

\* The gateway answers at most MaxTrades swap calls in one run; a call
\* beyond that stays unanswered.
SwapAnswers == Len(history) < MaxTrades

\* the gateway answers a call for `token` with outcome o
Answered(token, side, o) ==
  Append(swaps, [tokenAddress |-> token, side |-> side, ok |-> o.ok])

\* INSERT INTO trade_history ...
TradeRow(token, side, solAmount, result) ==
  [tokenAddress |-> token, side |-> side, solAmount |-> solAmount,
   txHash |-> result.txHash, success |-> IF result.success THEN 1 ELSE 0,
   error |-> result.error]

\* INSERT INTO positions ... 'OPEN' (pnl_pct, exit_tx, exit_time default)
PositionRow(token, price, solAmount, result, score, narrative) ==
  [tokenAddress |-> token, entryPrice |-> price, entrySol |-> solAmount,
   currentPrice |-> price, pnlPct |-> 0, status |-> "OPEN",
   entryTx |-> result.txHash, exitTx |-> NULL, exitTime |-> NULL,
   score |-> score, narrative |-> narrative]

\* Swarm.setAgentStatus
setAgentStatus(a, id, status) == [a EXCEPT ![id] = status]

(***************************************************************************)
(* Executor.buy: Swarm.executeTrade, called by a Hunter tick.              *)
(* A Hunter tick h is at "rest" (anywhere outside executeTrade), or inside *)
(* executeTrade awaiting getBalance ("balance") or executeBuy ("swap").    *)
(* log is the executor's last log line for the tick's last call.           *)
(***************************************************************************)
RestBuy(token, log) ==
  [pc |-> "rest", token |-> token, price |-> 0, score |-> 0,
   narrative |-> "", solBal |-> 0, tradeSize |-> 0, log |-> log]

\* executeTradeCall with the max-concurrent check left out
executeTradeCallNoMaxCheck(token, price, score, narrative) ==
  IF ~wallet THEN RestBuy(token, "no wallet")
  ELSE IF Holding(token) THEN RestBuy(token, "already holding")
  ELSE [pc |-> "balance", token |-> token, price |-> price, score |-> score,
        narrative |-> narrative, solBal |-> 0, tradeSize |-> 0, log |-> ""]

\* executeTradeCall with the "already holding" check left out
executeTradeCallNoHoldingCheck(token, price, score, narrative) ==
  IF ~wallet THEN RestBuy(token, "no wallet")
  ELSE IF OpenCount >= config.maxConcurrentTrades
    THEN RestBuy(token, "max concurrent")
  ELSE [pc |-> "balance", token |-> token, price |-> price, score |-> score,
        narrative |-> narrative, solBal |-> 0, tradeSize |-> 0, log |-> ""]

\* executeTrade up to its first await (lines 552-573)
executeTradeCall(token, price, score, narrative) ==
  IF ~wallet THEN RestBuy(token, "no wallet")
  ELSE IF OpenCount >= config.maxConcurrentTrades
    THEN RestBuy(token, "max concurrent")
  ELSE IF Holding(token) THEN RestBuy(token, "already holding")
  ELSE [pc |-> "balance", token |-> token, price |-> price, score |-> score,
        narrative |-> narrative, solBal |-> 0, tradeSize |-> 0, log |-> ""]

\* TradeSize without the 30% rule
TradeSizeMaxPosition(bal) == config.maxPositionSol

\* Math.min(maxPositionSol, solBal * 0.3)
TradeSize(bal) == Min(config.maxPositionSol, (bal * 3) \div 10)

\* executeTrade from getBalance's return to the executeBuy call (574-591)
executeTradeBalance(t, o) ==
  IF ~o.ok THEN RestBuy(t.token, "error")
  ELSE IF TradeSize(o.bal) < DustFloor THEN RestBuy(t.token, "insufficient")
  ELSE [t EXCEPT !.pc = "swap", !.solBal = o.bal,
                 !.tradeSize = TradeSize(o.bal)]

\* executeTradeLedger recording successful buys only
executeTradeLedgerOnSuccess(t, result) ==
  IF result.success
    THEN Append(history, TradeRow(t.token, "BUY", t.tradeSize, result))
    ELSE history

\* executeTrade after executeBuy returned: the ledger row (593-598)
executeTradeLedger(t, result) ==
  Append(history, TradeRow(t.token, "BUY", t.tradeSize, result))

\* executeTradePosition inserting the row whatever the result
executeTradePositionAlways(t, result) ==
  Append(positions,
         PositionRow(t.token, t.price, t.tradeSize, result,
                     t.score, t.narrative))

\* executeTrade after executeBuy returned: the position (600-611)
executeTradePosition(t, result) ==
  IF result.success
    THEN Append(positions,
                PositionRow(t.token, t.price, t.tradeSize, result,
                            t.score, t.narrative))
    ELSE positions

\* runCoinHunter lines 447-454: a scored token with signal BUY, a score of at
\* least minScoreToTrade and a wallet set is handed to executeTrade.
\* (The tick checks `running` only before it scores, lines 366 and 400.)
AutoBuy(h, scores) ==
  /\ hunter[h].pc = "rest"
  /\ wallet
  /\ \E token \in Tokens, price \in EntryPrices, score \in scores,
        narrative \in Narratives :
       /\ score >= config.minScoreToTrade
       /\ hunter' = [hunter EXCEPT
                       ![h] = executeTradeCall(token, price, score, narrative)]
  /\ UNCHANGED <<hunt, life, running, wallet, config, agents, positions, history, swaps,
                 mbuy, msell, risk, updater>>

\* a tick whose scored tokens all got the score 85
HunterAutoBuy(h) == AutoBuy(h, Scores)

\* a tick whose scored tokens got different scores, below and above
\* minScoreToTrade
HunterCycleBuy(h) == AutoBuy(h, CycleScores)

ExecuteTradeBalance(h) ==
  /\ hunter[h].pc = "balance"
  /\ \E o \in BalanceOutcomes :
       LET t == executeTradeBalance(hunter[h], o) IN
         /\ hunter' = [hunter EXCEPT ![h] = t]
         /\ agents' = IF t.pc = "swap"
                        THEN setAgentStatus(agents, "executor", "running")
                        ELSE agents
  /\ UNCHANGED <<hunt, life, running, wallet, config, positions, history, swaps,
                 mbuy, msell, risk, updater>>

ExecuteTradeSwap(h) ==
  /\ hunter[h].pc = "swap"
  /\ SwapAnswers
  /\ \E o \in SwapOutcomes :
       LET result == executeBuy(o, hunter[h].tradeSize, NextTx) IN
         /\ swaps' = Answered(hunter[h].token, "BUY", o)
         /\ history' = executeTradeLedger(hunter[h], result)
         /\ positions' = executeTradePosition(hunter[h], result)
         /\ hunter' = [hunter EXCEPT
                         ![h] = RestBuy(hunter[h].token,
                                        IF result.success THEN "bought"
                                                          ELSE "buy failed")]
  /\ UNCHANGED <<hunt, life, running, wallet, config, agents, mbuy, msell, risk, updater>>

(***************************************************************************)
(* Swarm.manualBuy (POST /buy).  A request m is "idle", awaiting           *)
(* getTokenByAddress ("token") or executeBuy ("swap"), or holds the value  *)
(* it returned until the API handler has responded ("done").               *)
(***************************************************************************)
IdleBuy ==
  [pc |-> "idle", token |-> "", price |-> 0, solAmount |-> 0, result |-> ""]

DoneBuy(token, result) ==
  [pc |-> "done", token |-> token, price |-> 0, solAmount |-> 0,
   result |-> result]

\* manualBuy up to its first await (653-659)
manualBuyCall(token, solAmount) ==
  IF ~wallet THEN DoneBuy(token, "null")
  ELSE [pc |-> "token", token |-> token, price |-> 0,
        solAmount |-> solAmount, result |-> ""]

\* manualBuy from getTokenByAddress's return to the executeBuy call (660-667)
manualBuyToken(t, o) ==
  IF ~o.found THEN DoneBuy(t.token, "null")
  ELSE [t EXCEPT !.pc = "swap", !.price = o.price]

\* manualBuy after executeBuy returned: the ledger row (669-673)
manualBuyLedger(t, result) ==
  Append(history, TradeRow(t.token, "BUY", t.solAmount, result))

\* manualBuyPosition inserting the position whatever the result
manualBuyPositionAlways(t, result) ==
  Append(positions,
         PositionRow(t.token, t.price, t.solAmount, result, 0, "Manual"))

\* manualBuy after executeBuy returned: the position (675-684)
manualBuyPosition(t, result) ==
  IF result.success
    THEN Append(positions,
                PositionRow(t.token, t.price, t.solAmount, result,
                            0, "Manual"))
    ELSE positions

ManualBuy(m) ==
  /\ mbuy[m].pc = "idle"
  /\ \E token \in Tokens, solAmount \in ManualAmounts :
       mbuy' = [mbuy EXCEPT ![m] = manualBuyCall(token, solAmount)]
  /\ UNCHANGED <<hunt, life, running, wallet, config, agents, positions, history, swaps,
                 hunter, msell, risk, updater>>

ManualBuyToken(m) ==
  /\ mbuy[m].pc = "token"
  /\ \E o \in {x \in TokenOutcomes : x.found => x.price \in EntryPrices} :
       LET t == manualBuyToken(mbuy[m], o) IN
         /\ mbuy' = [mbuy EXCEPT ![m] = t]
  /\ UNCHANGED <<hunt, life, running, wallet, config, agents, positions, history, swaps,
                 hunter, msell, risk, updater>>

ManualBuySwap(m) ==
  /\ mbuy[m].pc = "swap"
  /\ SwapAnswers
  /\ \E o \in SwapOutcomes :
       LET result == executeBuy(o, mbuy[m].solAmount, NextTx) IN
         /\ swaps' = Answered(mbuy[m].token, "BUY", o)
         /\ history' = manualBuyLedger(mbuy[m], result)
         /\ positions' = manualBuyPosition(mbuy[m], result)
         /\ mbuy' = [mbuy EXCEPT
                       ![m] = DoneBuy(mbuy[m].token,
                                      IF result.success THEN "success"
                                                        ELSE "failure")]
  /\ UNCHANGED <<hunt, life, running, wallet, config, agents, hunter, msell, risk, updater>>

\* handleAPI: broadcast("trade", result) and the response (index.ts 189-191)
ManualBuyRespond(m) ==
  /\ mbuy[m].pc = "done"
  /\ mbuy' = [mbuy EXCEPT ![m] = IdleBuy]
  /\ UNCHANGED <<hunt, life, running, wallet, config, agents, positions, history, swaps,
                 hunter, msell, risk, updater>>

(***************************************************************************)
(* Executor.sell: Swarm.closePosition.  A call that gets past its checks   *)
(* awaits executeSell holding the row it read (pos).                       *)
(***************************************************************************)
NoSell == [id |-> 0, reason |-> "", pnl_pct |-> 0, current_price |-> 0]

\* closePositionProceeds without the wallet check
closePositionProceedsNoWallet(P, positionId) ==
  /\ positionId \in DOMAIN P
  /\ P[positionId].status = "OPEN"

\* closePositionProceeds without the status check
closePositionProceedsAnyStatus(P, positionId) ==
  /\ wallet
  /\ positionId \in DOMAIN P

\* closePosition's checks (615-618) against the table P: does the call go
\* on to executeSell?
closePositionProceeds(P, positionId) ==
  /\ wallet
  /\ positionId \in DOMAIN P
  /\ P[positionId].status = "OPEN"

\* the row closePosition read, kept across the await (617, 622-629)
closePositionCall(P, positionId, reason) ==
  [id |-> positionId, reason |-> reason,
   pnl_pct |-> P[positionId].pnlPct,
   current_price |-> P[positionId].currentPrice]

\* closePositionLedger writing over the last row instead of appending
closePositionLedgerOverwrite(c, result) ==
  [history EXCEPT ![Len(history)] =
     TradeRow(positions[c.id].tokenAddress, "SELL", NULL, result)]

\* closePosition after executeSell returned: the ledger row (631-636)
closePositionLedger(c, result) ==
  Append(history,
         TradeRow(positions[c.id].tokenAddress, "SELL", NULL, result))

\* closePositionUpdate closing the row whatever the result
closePositionUpdateAlways(c, result) ==
  [positions EXCEPT ![c.id] =
     [@ EXCEPT !.status = c.reason,
               !.exitTx = result.txHash,
               !.exitTime = Now,
               !.currentPrice = IF result.price # 0
                                  THEN result.price
                                  ELSE c.current_price,
               !.pnlPct = c.pnl_pct]]

\* closePositionUpdate setting the status and leaving exit_tx and exit_time
closePositionUpdateNoExit(c, result) ==
  IF result.success
    THEN [positions EXCEPT ![c.id] =
            [@ EXCEPT !.status = c.reason,
                      !.currentPrice = IF result.price # 0
                                         THEN result.price
                                         ELSE c.current_price,
                      !.pnlPct = c.pnl_pct]]
    ELSE positions

\* closePosition after executeSell returned: the UPDATE (638-646);
\* current_price = result.price || pos.current_price
closePositionUpdate(c, result) ==
  IF result.success
    THEN [positions EXCEPT ![c.id] =
            [@ EXCEPT !.status = c.reason,
                      !.exitTx = result.txHash,
                      !.exitTime = Now,
                      !.currentPrice = IF result.price # 0
                                         THEN result.price
                                         ELSE c.current_price,
                      !.pnlPct = c.pnl_pct]]
    ELSE positions

(***************************************************************************)
(* Swarm.manualSell (POST /sell).                                          *)
(***************************************************************************)
IdleSell == [pc |-> "idle", positionId |-> 0, sell |-> NoSell, result |-> ""]

DoneSell(positionId, result) ==
  [pc |-> "done", positionId |-> positionId, sell |-> NoSell,
   result |-> result]

\* manualSell up to the await inside closePosition (689-702, 614-629)
manualSellCall(positionId) ==
  IF ~wallet THEN DoneSell(positionId, "null")
  ELSE IF ~(positionId \in OpenIds) THEN DoneSell(positionId, "null")
  ELSE IF closePositionProceeds(positions, positionId)
    THEN [pc |-> "sell", positionId |-> positionId,
          sell |-> closePositionCall(positions, positionId, "CLOSED"),
          result |-> ""]
    ELSE DoneSell(positionId, "success")

\* what manualSell returns once closePosition is over (703)
manualSellResult(result) == "success"

ManualSell(m) ==
  /\ msell[m].pc = "idle"
  /\ \E positionId \in 1..MaxTrades :
       LET t == manualSellCall(positionId) IN
         /\ msell' = [msell EXCEPT ![m] = t]
  /\ UNCHANGED <<hunt, life, running, wallet, config, agents, positions, history, swaps,
                 hunter, mbuy, risk, updater>>

ManualSellSwap(m) ==
  /\ msell[m].pc = "sell"
  /\ SwapAnswers
  /\ \E o \in SellOutcomes :
       LET result == executeSell(o, NextTx) IN
         /\ swaps' = Answered(positions[msell[m].sell.id].tokenAddress,
                               "SELL", o)
         /\ history' = closePositionLedger(msell[m].sell, result)
         /\ positions' = closePositionUpdate(msell[m].sell, result)
         /\ msell' = [msell EXCEPT
                        ![m] = DoneSell(msell[m].positionId,
                                        manualSellResult(result))]
  /\ UNCHANGED <<hunt, life, running, wallet, config, agents, hunter, mbuy, risk, updater>>

\* handleAPI: broadcast("trade", result) and the response (index.ts 200-202)
ManualSellRespond(m) ==
  /\ msell[m].pc = "done"
  /\ msell' = [msell EXCEPT ![m] = IdleSell]
  /\ UNCHANGED <<hunt, life, running, wallet, config, agents, positions, history, swaps,
                 hunter, mbuy, risk, updater>>

(***************************************************************************)
(* Swarm.runRiskManager.  A tick holds the rows it selected at its start   *)
(* (rem: those not yet dealt with, the head being the current one) and is  *)
(* awaiting getTokenByAddress ("liq"), the executeSell of a closePosition  *)
(* ("sell") or the wallet balance of the heat check ("heat").              *)
(***************************************************************************)
\* tokenData of a tick: what its last getTokenByAddress call returned, null
\* (found FALSE) before the first call
NoToken == [found |-> FALSE, value |-> NULL]
IdleRisk == [pc |-> "idle", rem |-> <<>>, sell |-> NoSell,
             tokenData |-> NoToken]

\* SELECT * FROM positions WHERE status = 'OPEN' (481): id and pnl_pct
RiskSnapshot ==
  LET open == OpenFrom(1) IN
    [k \in 1..Len(open) |->
       [id |-> open[k], pnl_pct |-> positions[open[k]].pnlPct]]

\* RiskRule with a strict stop-loss comparison
RiskRuleStrict(pos) ==
  IF pos.pnl_pct < -config.stopLossPct THEN "STOPPED"
  ELSE IF pos.pnl_pct >= config.takeProfitPct THEN "TP_HIT"
  ELSE "LIQUIDITY"

\* RiskRule testing take-profit before stop-loss
RiskRuleTakeProfitFirst(pos) ==
  IF pos.pnl_pct >= config.takeProfitPct THEN "TP_HIT"
  ELSE IF pos.pnl_pct <= -config.stopLossPct THEN "STOPPED"
  ELSE "LIQUIDITY"

\* the rule that applies to a selected row (490, 495, 500)
RiskRule(pos) ==
  IF pos.pnl_pct <= -config.stopLossPct THEN "STOPPED"
  ELSE IF pos.pnl_pct >= config.takeProfitPct THEN "TP_HIT"
  ELSE "LIQUIDITY"

\* The loop of lines 488-507 from the row at the head of rem to the tick's
\* next await, reading the table P; after the last row, the heat check
\* (509-518) awaits the balance when a wallet is set.
RECURSIVE RiskLoop(_, _)
RiskLoop(P, rem) ==
  IF rem = <<>>
    THEN IF wallet THEN [pc |-> "heat", rem |-> <<>>, sell |-> NoSell,
                         tokenData |-> NoToken]
                   ELSE IdleRisk
  ELSE IF RiskRule(Head(rem)) = "LIQUIDITY"
    THEN [pc |-> "liq", rem |-> rem, sell |-> NoSell, tokenData |-> NoToken]
  ELSE IF closePositionProceeds(P, Head(rem).id)
    THEN [pc |-> "sell", rem |-> rem,
          sell |-> closePositionCall(P, Head(rem).id, RiskRule(Head(rem))),
          tokenData |-> NoToken]
  ELSE RiskLoop(P, Tail(rem))

\* RiskLiquidity closing also when the fetch returned nothing
RiskLiquidityCloseOnNull(P, rem, o) ==
  [(IF (~o.found \/ o.liquidity < LiquidityFloor)
         /\ closePositionProceeds(P, Head(rem).id)
      THEN [pc |-> "sell", rem |-> rem,
            sell |-> closePositionCall(P, Head(rem).id, "STOPPED"),
            tokenData |-> NoToken]
      ELSE RiskLoop(P, Tail(rem)))
     EXCEPT !.tokenData = [found |-> o.found, value |-> o.liquidity]]

\* lines 501-505: the liquidity rule once getTokenByAddress returned
RiskLiquidity(P, rem, o) ==
  [(IF o.found /\ o.liquidity < LiquidityFloor
         /\ closePositionProceeds(P, Head(rem).id)
      THEN [pc |-> "sell", rem |-> rem,
            sell |-> closePositionCall(P, Head(rem).id, "STOPPED"),
            tokenData |-> NoToken]
      ELSE RiskLoop(P, Tail(rem)))
     EXCEPT !.tokenData = [found |-> o.found, value |-> o.liquidity]]

RiskStart(r) ==
  /\ Scheduled("risk")
  /\ running
  /\ risk[r].pc = "idle"
  /\ LET t == RiskLoop(positions, RiskSnapshot) IN
       /\ risk' = [risk EXCEPT ![r] = IF RiskSnapshot = <<>> THEN IdleRisk
                                                             ELSE t]
  /\ agents' = setAgentStatus(agents, "risk", "running")
  /\ UNCHANGED <<hunt, life, running, wallet, config, positions, history, swaps,
                 hunter, mbuy, msell, updater>>

RiskLiq(r) ==
  /\ risk[r].pc = "liq"
  /\ \E o \in TokenOutcomes :
       LET t == RiskLiquidity(positions, risk[r].rem, o) IN
         /\ risk' = [risk EXCEPT ![r] = t]
         /\ agents' = IF t.pc = "idle"
                        THEN setAgentStatus(agents, "risk", "running")
                        ELSE agents
  /\ UNCHANGED <<hunt, life, running, wallet, config, positions, history, swaps,
                 hunter, mbuy, msell, updater>>

RiskSell(r) ==
  /\ risk[r].pc = "sell"
  /\ SwapAnswers
  /\ \E o \in SellOutcomes :
       LET result == executeSell(o, NextTx)
           P == closePositionUpdate(risk[r].sell, result)
           t == RiskLoop(P, Tail(risk[r].rem))
       IN
         /\ swaps' = Answered(positions[risk[r].sell.id].tokenAddress,
                               "SELL", o)
         /\ history' = closePositionLedger(risk[r].sell, result)
         /\ positions' = P
         /\ risk' = [risk EXCEPT ![r] = t]
         /\ agents' = IF t.pc = "idle"
                        THEN setAgentStatus(agents, "risk", "running")
                        ELSE agents
  /\ UNCHANGED <<hunt, life, running, wallet, config, hunter, mbuy, msell, updater>>

\* lines 511-522: the balance returned, or getBalance threw
RiskHeat(r) ==
  /\ risk[r].pc = "heat"
  /\ \E o \in BalanceOutcomes :
       agents' = setAgentStatus(agents, "risk",
                                IF o.ok THEN "running" ELSE "error")
  /\ risk' = [risk EXCEPT ![r] = IdleRisk]
  /\ UNCHANGED <<hunt, life, running, wallet, config, positions, history, swaps,
                 hunter, mbuy, msell, updater>>

(***************************************************************************)
(* Swarm.runPriceUpdater.  A tick holds the ids it selected at its start   *)
(* (rem, the head being the current one) and is awaiting                   *)
(* getTokenByAddress ("fetch") or the 500 ms delay ("sleep").              *)
(***************************************************************************)
IdleUpdater == [pc |-> "idle", rem |-> <<>>, tokenData |-> NoToken]

\* ((tokenData.price - pos.entry_price) / pos.entry_price) * 100
PnlPct(price, entryPrice) == ((price - entryPrice) * 100) \div entryPrice

\* priceUpdate writing current_price and leaving pnl_pct as it was
priceUpdatePriceOnly(P, id, o) ==
  IF o.found
    THEN [P EXCEPT ![id] = [@ EXCEPT !.currentPrice = o.price]]
    ELSE P

\* lines 536-542: the UPDATE of the current row once the fetch returned
priceUpdate(P, id, o) ==
  IF o.found
    THEN [P EXCEPT ![id] =
            [@ EXCEPT !.currentPrice = o.price,
                      !.pnlPct = PnlPct(o.price, P[id].entryPrice)]]
    ELSE P

UpdaterStart(u) ==
  /\ Scheduled("updater")
  /\ running
  /\ updater[u].pc = "idle"
  /\ OpenFrom(1) # <<>>
  /\ updater' = [updater EXCEPT ![u] = [pc |-> "fetch", rem |-> OpenFrom(1),
                                         tokenData |-> NoToken]]
  /\ UNCHANGED <<hunt, life, running, wallet, config, agents, positions, history, swaps,
                 hunter, mbuy, msell, risk>>

\* UpdaterFetch ending the tick when the fetch returned nothing
UpdaterFetchAbortOnNull(u) ==
  /\ updater[u].pc = "fetch"
  /\ \E o \in TokenOutcomes :
       /\ positions' = priceUpdate(positions, Head(updater[u].rem), o)
       /\ updater' = [updater EXCEPT
                        ![u] = IF o.found
                                 THEN [@ EXCEPT !.pc = "sleep",
                                        !.tokenData = [found |-> TRUE,
                                                       value |-> o.price]]
                                 ELSE IdleUpdater]
  /\ UNCHANGED <<hunt, life, running, wallet, config, agents, history, swaps,
                 hunter, mbuy, msell, risk>>

UpdaterFetch(u) ==
  /\ updater[u].pc = "fetch"
  /\ \E o \in TokenOutcomes :
       /\ positions' = priceUpdate(positions, Head(updater[u].rem), o)
       /\ updater' = [updater EXCEPT
                        ![u].pc = "sleep",
                        ![u].tokenData = [found |-> o.found,
                                          value |-> o.price]]
  /\ UNCHANGED <<hunt, life, running, wallet, config, agents, history, swaps,
                 hunter, mbuy, msell, risk>>

UpdaterSleep(u) ==
  /\ updater[u].pc = "sleep"
  /\ updater' = [updater EXCEPT
                   ![u] = IF Tail(updater[u].rem) = <<>>
                            THEN IdleUpdater
                            ELSE [pc |-> "fetch",
                                  rem |-> Tail(updater[u].rem),
                                  tokenData |-> NoToken]]
  /\ UNCHANGED <<hunt, life, running, wallet, config, agents, positions, history, swaps,
                 hunter, mbuy, msell, risk>>

(***************************************************************************)
(* Swarm.start, Swarm.stop and Swarm.runNarrativeScanner.                  *)
(***************************************************************************)
\* A start() call is "idle" (none in progress), awaiting the wallet balance
\* ("balance"), its initial Narrative scan ("narrative") or its initial
\* Hunter scan ("hunter"), or has returned to the API handler ("done").
\* result is how the call ended: start() has no throw, it returns.
IdleStart == [pc |-> "idle", result |-> ""]
DoneStart == [pc |-> "done", result |-> "returned"]
IdleScanner == [pc |-> "idle"]

\* The narratives of an analysis: the name of each, and whether it has the
\* tokens array the log line of 349 joins.
Analyses ==
  { <<>>,
    <<[name |-> "AI", tokens |-> TRUE]>>,
    <<[name |-> "AI", tokens |-> TRUE], [name |-> "Dog", tokens |-> FALSE],
      [name |-> "Cat", tokens |-> TRUE]>> }

\* The content llmChat returned for a Narrative scan: text JSON.parse
\* rejects, JSON without a narratives array, or an analysis.
NarrativeResponses ==
  [parses : BOOLEAN, shaped : {FALSE}, narratives : {<<>>}]
    \cup [parses : {TRUE}, shaped : {TRUE}, narratives : Analyses]

\* llmNarrativeAnalysis passing on what it could not parse
llmNarrativeAnalysisUnchecked(raw) ==
  [shaped |-> raw.shaped, narratives |-> raw.narratives]

\* llm.ts 88-95: JSON.parse of the content, { narratives: [] } if it throws
llmNarrativeAnalysis(raw) ==
  IF raw.parses
    THEN [shaped |-> raw.shaped, narratives |-> raw.narratives]
    ELSE [shaped |-> TRUE, narratives |-> <<>>]

\* How the gateway calls of one Narrative scan end (321-340): no token
\* found, llmChat threw, or llmChat returned a content.
ScanOutcomes ==
  [kind : {"empty", "threw"},
   raw : {[parses |-> FALSE, shaped |-> FALSE, narratives |-> <<>>]}]
    \cup [kind : {"ok"}, raw : NarrativeResponses]

\* lines 344-349: each narrative is inserted and then logged; the log line
\* throws on a narrative without tokens, which ends the loop
RECURSIVE insertNarratives(_)
insertNarratives(items) ==
  IF items = <<>> THEN <<>>
  ELSE IF ~Head(items).tokens THEN <<Head(items).name>>
  ELSE <<Head(items).name>> \o insertNarratives(Tail(items))

\* the scan ends in its catch block (355-357): llmChat threw, the analysis
\* has no narratives to iterate over (344), or the loop threw
scanThrew(o) ==
  \/ o.kind = "threw"
  \/ /\ o.kind = "ok"
     /\ LET analysis == llmNarrativeAnalysis(o.raw) IN
          \/ ~analysis.shaped
          \/ \E i \in 1..Len(analysis.narratives) :
               ~analysis.narratives[i].tokens

\* lines 342-349: DELETE FROM narratives, then one INSERT per narrative
scanNarratives(o) ==
  IF o.kind = "ok"
    THEN LET analysis == llmNarrativeAnalysis(o.raw) IN
           IF analysis.shaped THEN insertNarratives(analysis.narratives)
                              ELSE <<>>
    ELSE narratives

\* lines 326-329, 351, 355-357: the agent status a scan leaves
scanStatus(a, o) ==
  IF scanThrew(o) THEN setAgentStatus(a, "narrative", "error")
  ELSE IF o.kind = "ok" THEN setAgentStatus(a, "narrative", "running")
  ELSE a

\* lines 257-273: every agent deployed
startDeploy == [a \in AgentIds |-> "running"]

\* stop(), lines 292-302
Stop ==
  /\ running' = FALSE
  /\ intervals' = <<>>
  /\ agents' = [a \in AgentIds |-> "idle"]
  /\ stopped' = TRUE
  /\ UNCHANGED <<hunt, wallet, config, positions, history, swaps, hunter, mbuy,
                 msell, risk, updater, starter, scanner, narratives>>

\* start() up to its first await or its return (219-278); createWallet
\* throws on a key that does not decode.
StartCall ==
  /\ starter.pc = "idle"
  /\ stopped' = FALSE
  /\ IF running \/ ~config.openrouterKey \/ ~config.rpcUrl
       THEN /\ starter' = DoneStart
            /\ UNCHANGED <<running, wallet, agents>>
     ELSE IF config.walletKey
       THEN \E decodes \in BOOLEAN :
              /\ wallet' = (decodes \/ wallet)
              /\ starter' = IF decodes THEN [pc |-> "balance", result |-> ""]
                                       ELSE DoneStart
              /\ UNCHANGED <<running, agents>>
     ELSE /\ running' = TRUE
          /\ agents' = startDeploy
          /\ starter' = [pc |-> "narrative", result |-> ""]
          /\ UNCHANGED wallet
  /\ UNCHANGED <<hunt, config, positions, history, swaps, hunter, mbuy, msell,
                 risk, updater, intervals, scanner, narratives>>

\* lines 244-278: the wallet balance returned, or getBalance threw
StartBalance ==
  /\ starter.pc = "balance"
  /\ \E o \in BalanceOutcomes :
       IF o.ok
         THEN /\ running' = TRUE
              /\ agents' = startDeploy
              /\ starter' = [pc |-> "narrative", result |-> ""]
         ELSE /\ starter' = DoneStart
              /\ UNCHANGED <<running, agents>>
  /\ UNCHANGED <<hunt, wallet, config, positions, history, swaps, hunter, mbuy,
                 msell, risk, updater, intervals, scanner, narratives,
                 stopped>>

\* StartNarrative registering the timers before the initial Hunter scan
StartNarrativeSchedulesFirst ==
  /\ starter.pc = "narrative"
  /\ \E o \in ScanOutcomes :
       /\ narratives' = scanNarratives(o)
       /\ intervals' = intervals \o Timers
       /\ IF running
            THEN /\ agents' = setAgentStatus(scanStatus(agents, o),
                                             "hunter", "running")
                 /\ starter' = [pc |-> "hunter", result |-> ""]
            ELSE /\ agents' = scanStatus(agents, o)
                 /\ starter' = DoneStart
  /\ UNCHANGED <<hunt, running, wallet, config, positions, history, swaps, hunter,
                 mbuy, msell, risk, updater, scanner, stopped>>

\* lines 278-290: the initial Narrative scan is over; runCoinHunter returns
\* at once when not running (366), else start() awaits it
StartNarrative ==
  /\ starter.pc = "narrative"
  /\ \E o \in ScanOutcomes :
       /\ narratives' = scanNarratives(o)
       /\ IF running
            THEN /\ agents' = setAgentStatus(scanStatus(agents, o),
                                             "hunter", "running")
                 /\ starter' = [pc |-> "hunter", result |-> ""]
                 /\ UNCHANGED intervals
            ELSE /\ agents' = scanStatus(agents, o)
                 /\ intervals' = intervals \o Timers
                 /\ starter' = DoneStart
  /\ UNCHANGED <<hunt, running, wallet, config, positions, history, swaps, hunter,
                 mbuy, msell, risk, updater, scanner, stopped>>

\* lines 279-290: the initial Hunter scan (one that found nothing to buy) is
\* over (465) and the timers are registered
StartHunter ==
  /\ starter.pc = "hunter"
  /\ agents' = setAgentStatus(agents, "hunter", "running")
  /\ intervals' = intervals \o Timers
  /\ starter' = DoneStart
  /\ UNCHANGED <<hunt, running, wallet, config, positions, history, swaps, hunter,
                 mbuy, msell, risk, updater, scanner, narratives, stopped>>

\* handleAPI: broadcast("status", ...) and the response (index.ts 137-138)
StartRespond ==
  /\ starter.pc = "done"
  /\ starter' = IdleStart
  /\ UNCHANGED <<hunt, running, wallet, config, agents, positions, history, swaps,
                 hunter, mbuy, msell, risk, updater, intervals, scanner,
                 narratives, stopped>>

\* ScannerStart leaving an agent that failed alone
ScannerStartUnlessFailed(s) ==
  /\ Scheduled("narrative")
  /\ running
  /\ agents["narrative"] # "error"
  /\ scanner[s].pc = "idle"
  /\ agents' = setAgentStatus(agents, "narrative", "running")
  /\ scanner' = [scanner EXCEPT ![s] = [pc |-> "scan"]]
  /\ UNCHANGED <<hunt, running, wallet, config, positions, history, swaps, hunter,
                 mbuy, msell, risk, updater, intervals, starter, narratives,
                 stopped>>

\* a timer starts a Narrative scan (285, 317-322)
ScannerStart(s) ==
  /\ Scheduled("narrative")
  /\ running
  /\ scanner[s].pc = "idle"
  /\ agents' = setAgentStatus(agents, "narrative", "running")
  /\ scanner' = [scanner EXCEPT ![s] = [pc |-> "scan"]]
  /\ UNCHANGED <<hunt, running, wallet, config, positions, history, swaps, hunter,
                 mbuy, msell, risk, updater, intervals, starter, narratives,
                 stopped>>

\* the scan's gateway calls are over (325-358)
ScannerEnd(s) ==
  /\ scanner[s].pc = "scan"
  /\ \E o \in ScanOutcomes :
       /\ narratives' = scanNarratives(o)
       /\ agents' = scanStatus(agents, o)
  /\ scanner' = [scanner EXCEPT ![s] = IdleScanner]
  /\ UNCHANGED <<hunt, running, wallet, config, positions, history, swaps, hunter,
                 mbuy, msell, risk, updater, intervals, starter, stopped>>

(***************************************************************************)
(* Swarm.runCoinHunter.  A tick c is "idle", awaiting the market data      *)
(* ("fetch"), llmScore for the candidate at the head of rem ("score"),     *)
(* executeTrade for it ("buy", the call being hunter[c]) or the 1 s delay  *)
(* after it ("delay").  calls counts the llmScore calls the tick made,     *)
(* result is what the last of them returned.                               *)
(***************************************************************************)
NoResult == [object |-> FALSE, score |-> 0, signal |-> ""]
IdleCycle == [pc |-> "idle", rem |-> <<>>, calls |-> 0, result |-> NoResult]

\* filtered.slice(0, 15), line 399
ScoreCap == 15
\* Date.now() - existing.last_seen < 300000 (403), in minutes
CoolDown == 5

\* slice without the cap
sliceAll(filtered) == filtered

slice(filtered) == SubSeq(filtered, 1, Min(Len(filtered), ScoreCap))

\* The content llmChat returned for a score: text JSON.parse rejects, JSON
\* that is no object (null), or a score and a signal.
ScoreResponses ==
  [parses : BOOLEAN, object : {FALSE}, score : {0}, signal : {""}]
    \cup [parses : {TRUE}, object : {TRUE}, score : {85},
           signal : {"BUY", "WATCH"}]
    \cup [parses : {TRUE}, object : {TRUE}, score : {75}, signal : {"BUY"}]

\* llmScore passing on what it could not parse
llmScoreUnchecked(raw) ==
  [object |-> raw.object, score |-> raw.score, signal |-> raw.signal]

\* llm.ts 63-70: JSON.parse of the content, the sentinel if it throws
llmScore(raw) ==
  IF raw.parses
    THEN [object |-> raw.object, score |-> raw.score, signal |-> raw.signal]
    ELSE [object |-> TRUE, score |-> 0, signal |-> "SKIP"]

\* How an llmScore call ends: llmChat threw (fetch failed, or the gateway
\* answered with an error status), or it returned a content.
ScoreOutcomes ==
  [kind : {"threw"},
   raw : {[parses |-> FALSE, object |-> FALSE, score |-> 0, signal |-> ""]}]
    \cup [kind : {"ok"}, raw : ScoreResponses]

\* scanned_tokens has no row for the address
NoRow == [first_seen |-> NULL, last_seen |-> NULL, times_seen |-> 0]

\* upsert starting the count again at 1
upsertReplace(row) ==
  [first_seen |-> IF row = NoRow THEN clock ELSE row.first_seen,
   last_seen |-> clock, times_seen |-> 1]

\* lines 431-441: INSERT ... times_seen 1, ON CONFLICT(address) DO UPDATE
\* SET last_seen, times_seen = times_seen + 1 (first_seen is not in the SET)
upsert(row) ==
  IF row = NoRow
    THEN [first_seen |-> clock, last_seen |-> clock, times_seen |-> 1]
    ELSE [row EXCEPT !.last_seen = clock, !.times_seen = @ + 1]

\* lines 402-406: the address was scored within the last five minutes
Cooling(address) ==
  scanned[address] # NoRow /\ clock - scanned[address].last_seen < CoolDown

\* The loop of lines 399-463 from the candidate at the head of rem to the
\* tick's next await: it ends when not running (400), passes over a
\* candidate in its cool-down (404-406) and calls llmScore otherwise.
RECURSIVE CycleLoop(_, _)
CycleLoop(rem, calls) ==
  IF rem = <<>> \/ ~running
    THEN [pc |-> "idle", rem |-> <<>>, calls |-> calls, result |-> NoResult]
  ELSE IF Cooling(Head(rem)) THEN CycleLoop(Tail(rem), calls)
  ELSE [pc |-> "score", rem |-> rem, calls |-> calls + 1,
        result |-> NoResult]

\* the gateway's record once the tick t has gone on from the record before
Called(before, t) ==
  IF t.pc = "score" /\ t.calls > before
    THEN [scoreCalls EXCEPT ![Head(t.rem)] = clock]
    ELSE scoreCalls

\* CycleStart behind a busy flag: no tick starts while another is under way
CycleStartUnlessBusy(c) ==
  /\ Scheduled("hunter")
  /\ running
  /\ \A d \in CycleTicks : cycles[d].pc = "idle"
  /\ hunter[c].pc = "rest"
  /\ agents' = setAgentStatus(agents, "hunter", "running")
  /\ cycles' = [cycles EXCEPT ![c] = [pc |-> "fetch", rem |-> <<>>,
                                       calls |-> 0, result |-> NoResult]]
  /\ UNCHANGED <<running, wallet, config, positions, history, swaps, hunter,
                 mbuy, msell, risk, updater, life, scanned, clock,
                 scoreCalls>>

\* a timer starts a Hunter tick (286, 365-373)
CycleStart(c) ==
  /\ Scheduled("hunter")
  /\ running
  /\ cycles[c].pc = "idle"
  /\ hunter[c].pc = "rest"
  /\ agents' = setAgentStatus(agents, "hunter", "running")
  /\ cycles' = [cycles EXCEPT ![c] = [pc |-> "fetch", rem |-> <<>>,
                                       calls |-> 0, result |-> NoResult]]
  /\ UNCHANGED <<running, wallet, config, positions, history, swaps, hunter,
                 mbuy, msell, risk, updater, life, scanned, clock,
                 scoreCalls>>

\* lines 373-406: getTrendingTokens and getNewPairs returned; the tokens
\* left after deduplication and filtering are one of lists
CycleFetchedOf(c, lists) ==
  /\ cycles[c].pc = "fetch"
  /\ \E filtered \in lists :
       LET t == CycleLoop(slice(filtered), 0) IN
         /\ cycles' = [cycles EXCEPT ![c] = t]
         /\ scoreCalls' = Called(0, t)
         /\ agents' = IF t.pc = "idle"
                        THEN setAgentStatus(agents, "hunter", "running")
                        ELSE agents
  /\ UNCHANGED <<running, wallet, config, positions, history, swaps, hunter,
                 mbuy, msell, risk, updater, life, scanned, clock>>

\* CycleScoredOf ending the tick when llmScore threw
CycleScoredOfAbort(c, outcomes) ==
  /\ cycles[c].pc = "score"
  /\ \E o \in outcomes :
       cycles' = [cycles EXCEPT
                    ![c] = IF o.kind = "threw"
                             THEN [IdleCycle EXCEPT !.calls = cycles[c].calls]
                             ELSE [@ EXCEPT !.pc = "delay",
                                            !.result = llmScore(o.raw)]]
  /\ UNCHANGED <<running, wallet, config, agents, positions, history, swaps,
                 hunter, mbuy, msell, risk, updater, life, scanned, clock,
                 scoreCalls>>

\* lines 421-460: llmScore returned or threw.  A result that is no object
\* throws at result.score (431-441), before the upsert; whatever is thrown
\* in the try block is caught at 457 and the tick goes on to its delay.
CycleScoredOf(c, outcomes) ==
  /\ cycles[c].pc = "score"
  /\ \E o \in outcomes, price \in EntryPrices, narrative \in Narratives :
       LET token == Head(cycles[c].rem)
           result == llmScore(o.raw)
           call == executeTradeCall(token, price, result.score, narrative)
       IN
         IF o.kind = "threw" \/ ~result.object
           THEN /\ cycles' = [cycles EXCEPT ![c].pc = "delay"]
                /\ UNCHANGED <<scanned, hunter>>
           ELSE /\ scanned' = [scanned EXCEPT ![token] = upsert(@)]
                /\ IF /\ result.signal = "BUY"
                      /\ result.score >= config.minScoreToTrade
                      /\ wallet
                     THEN /\ hunter' = [hunter EXCEPT ![c] = call]
                          /\ cycles' = [cycles EXCEPT ![c].pc = "buy",
                                                      ![c].result = result]
                     ELSE /\ cycles' = [cycles EXCEPT ![c].pc = "delay",
                                                      ![c].result = result]
                          /\ UNCHANGED hunter
  /\ UNCHANGED <<running, wallet, config, agents, positions, history, swaps,
                 mbuy, msell, risk, updater, life, clock, scoreCalls>>

\* CycleDelay going on while executeTrade is still in progress
CycleDelayNoWait(c) ==
  /\ cycles[c].pc \in {"delay", "buy"}
  /\ LET t == CycleLoop(Tail(cycles[c].rem), cycles[c].calls) IN
       /\ cycles' = [cycles EXCEPT ![c] = t]
       /\ scoreCalls' = Called(cycles[c].calls, t)
       /\ agents' = IF t.pc = "idle"
                      THEN setAgentStatus(agents, "hunter", "running")
                      ELSE agents
  /\ UNCHANGED <<running, wallet, config, positions, history, swaps, hunter,
                 mbuy, msell, risk, updater, life, scanned, clock>>

\* lines 462-465: the delay is over (after executeTrade returned or threw,
\* if it was called) and the loop goes on with the next candidate
CycleDelay(c) ==
  /\ \/ cycles[c].pc = "delay"
     \/ cycles[c].pc = "buy" /\ hunter[c].pc = "rest"
  /\ LET t == CycleLoop(Tail(cycles[c].rem), cycles[c].calls) IN
       /\ cycles' = [cycles EXCEPT ![c] = t]
       /\ scoreCalls' = Called(cycles[c].calls, t)
       /\ agents' = IF t.pc = "idle"
                      THEN setAgentStatus(agents, "hunter", "running")
                      ELSE agents
  /\ UNCHANGED <<running, wallet, config, positions, history, swaps, hunter,
                 mbuy, msell, risk, updater, life, scanned, clock>>

\* a tick that finds at most two candidates, each answer being possible
CycleLists == {<<>>, <<"A">>, <<"A", "B">>}
CycleFetched(c) == CycleFetchedOf(c, CycleLists)
CycleScored(c) == CycleScoredOf(c, ScoreOutcomes)

\* a tick that finds sixteen candidates, each of them scored WATCH
CycleFetchedMany(c) == CycleFetchedOf(c, {Candidates})
CycleScoredWatch(c) ==
  CycleScoredOf(c, {o \in ScoreOutcomes : o.raw.signal = "WATCH"})

\* a minute passes
Tick ==
  /\ clock < MaxClock
  /\ clock' = clock + 1
  /\ UNCHANGED <<running, wallet, config, agents, positions, history, swaps,
                 hunter, mbuy, msell, risk, updater, life, cycles, scanned,
                 scoreCalls>>

(***************************************************************************)
(* Initial states: the orchestrator once start() has completed.  The       *)
(* database file outlives a run: it is empty (first run), or holds what an *)
(* earlier run left in it.                                                 *)
(***************************************************************************)
InitTasks ==
  /\ running = TRUE
  /\ agents = [a \in AgentIds |-> "running"]
  /\ hunter = [h \in HunterTicks |-> RestBuy("", "")]
  /\ mbuy = [m \in ManualBuys |-> IdleBuy]
  /\ msell = [m \in ManualSells |-> IdleSell]
  /\ risk = [r \in RiskTicks |-> IdleRisk]
  /\ updater = [u \in UpdaterTicks |-> IdleUpdater]
  /\ intervals = Timers
  /\ starter = IdleStart
  /\ scanner = [s \in ScannerTicks |-> IdleScanner]
  /\ narratives = <<>>
  /\ stopped = FALSE
  /\ cycles = [c \in CycleTicks |-> IdleCycle]
  /\ scanned = [a \in Addresses |-> NoRow]
  /\ clock = 1
  /\ scoreCalls = [a \in Addresses |-> NULL]

\* first run: empty tables
InitEmpty ==
  /\ InitTasks
  /\ config \in BuyConfigs
  /\ wallet = config.walletKey
  /\ positions = <<>>
  /\ history = <<>>
  /\ swaps = <<>>

\* the ledger and the positions after n manual buys that succeeded, one per
\* token of toks, at entry price 100
RECURSIVE BoughtLedger(_)
BoughtLedger(toks) ==
  IF toks = <<>> THEN <<>>
  ELSE LET h == BoughtLedger(SubSeq(toks, 1, Len(toks) - 1))
           o == [ok |-> TRUE, msg |-> "", price |-> 0]
       IN Append(h, TradeRow(toks[Len(toks)], "BUY", 500,
                             executeBuy(o, 500, Len(h) + 1)))

BoughtPositions(toks) ==
  [k \in 1..Len(toks) |->
     PositionRow(toks[k], CHOOSE p \in EntryPrices : TRUE, 500,
                 executeBuy([ok |-> TRUE, msg |-> "", price |-> 0], 500, k),
                 0, "Manual")]

\* a later run: the wallet holds positions bought by an earlier run
InitHeld ==
  /\ InitTasks
  /\ wallet = TRUE
  /\ config \in RiskConfigs
  /\ \E toks \in {<<"A">>, <<"A", "B">>} :
       /\ positions = BoughtPositions(toks)
       /\ history = BoughtLedger(toks)
       /\ swaps = [k \in 1..Len(toks) |->
                    [tokenAddress |-> toks[k], side |-> "BUY", ok |-> TRUE]]

\* SwarmConfig as POST /start or a caller of the constructor may give it
LifeConfigs ==
  [openrouterKey : BOOLEAN, rpcUrl : BOOLEAN, walletKey : BOOLEAN,
   maxPositionSol : {500}, stopLossPct : {30}, takeProfitPct : {100},
   maxConcurrentTrades : {1}, minScoreToTrade : {80}]

\* a Swarm just constructed (148-175) on a database in which an earlier run
\* left one OPEN position
InitLife ==
  /\ running = FALSE
  /\ wallet = FALSE
  /\ config \in LifeConfigs
  /\ agents = [a \in AgentIds |-> "idle"]
  /\ positions = BoughtPositions(<<"A">>)
  /\ history = BoughtLedger(<<"A">>)
  /\ swaps = <<[tokenAddress |-> "A", side |-> "BUY", ok |-> TRUE]>>
  /\ hunter = [h \in HunterTicks |-> RestBuy("", "")]
  /\ mbuy = [m \in ManualBuys |-> IdleBuy]
  /\ msell = [m \in ManualSells |-> IdleSell]
  /\ risk = [r \in RiskTicks |-> IdleRisk]
  /\ updater = [u \in UpdaterTicks |-> IdleUpdater]
  /\ intervals = <<>>
  /\ starter = IdleStart
  /\ scanner = [s \in ScannerTicks |-> IdleScanner]
  /\ narratives = <<>>
  /\ stopped = FALSE
  /\ cycles = [c \in CycleTicks |-> IdleCycle]
  /\ scanned = [a \in Addresses |-> NoRow]
  /\ clock = 1
  /\ scoreCalls = [a \in Addresses |-> NULL]

\* Scenario A's configuration (maxConcurrentTrades 1, minScoreToTrade 80,
\* wallet set), with a size cap below and above 30% of the larger balance
CycleConfigs ==
  { [openrouterKey |-> TRUE, rpcUrl |-> TRUE, walletKey |-> TRUE,
     maxPositionSol |-> cap, stopLossPct |-> 30, takeProfitPct |-> 100,
     maxConcurrentTrades |-> 1, minScoreToTrade |-> 80] :
       cap \in {500, 1000} }

\* first run, wallet set, Scenario A's configuration
InitCycle ==
  /\ InitTasks
  /\ config \in CycleConfigs
  /\ wallet = config.walletKey
  /\ positions = <<>>
  /\ history = <<>>
  /\ swaps = <<>>

CycleStep(c) ==
  \/ CycleStart(c)
  \/ CycleFetched(c)
  \/ CycleScored(c)
  \/ ExecuteTradeBalance(c)
  \/ ExecuteTradeSwap(c)
  \/ CycleDelay(c)

CycleManyStep(c) ==
  \/ CycleStart(c)
  \/ CycleFetchedMany(c)
  \/ CycleScoredWatch(c)
  \/ CycleDelay(c)

CycleWatchStep(c) ==
  \/ CycleStart(c)
  \/ CycleFetched(c)
  \/ CycleScoredWatch(c)
  \/ CycleDelay(c)

\* first run, with or without a wallet, two positions allowed
InitHunt ==
  /\ InitEmpty
  /\ config.maxConcurrentTrades = 2

HunterCycleStep(h) ==
  \/ HunterCycleBuy(h)
  \/ ExecuteTradeBalance(h)
  \/ ExecuteTradeSwap(h)

StartStep ==
  \/ StartCall
  \/ StartBalance
  \/ StartNarrative
  \/ StartHunter
  \/ StartRespond

ScannerStep(s) ==
  \/ ScannerStart(s)
  \/ ScannerEnd(s)

HunterStep(h) ==
  \/ HunterAutoBuy(h)
  \/ ExecuteTradeBalance(h)
  \/ ExecuteTradeSwap(h)

ManualBuyStep(m) ==
  \/ ManualBuy(m)
  \/ ManualBuyToken(m)
  \/ ManualBuySwap(m)
  \/ ManualBuyRespond(m)

ManualSellStep(m) ==
  \/ ManualSell(m)
  \/ ManualSellSwap(m)
  \/ ManualSellRespond(m)

RiskStep(r) ==
  \/ RiskStart(r)
  \/ RiskLiq(r)
  \/ RiskSell(r)
  \/ RiskHeat(r)

UpdaterStep(u) ==
  \/ UpdaterStart(u)
  \/ UpdaterFetch(u)
  \/ UpdaterSleep(u)

\* Buying: overlapping Hunter ticks and manual buys.
NextBuy ==
  \/ \E h \in HunterTicks : HunterStep(h)
  \/ \E m \in ManualBuys : ManualBuyStep(m)

SpecBuy == InitEmpty /\ [][NextBuy]_vars

\* Monitoring: the Risk Manager, the Price Updater and manual sells.
NextRisk ==
  \/ \E r \in RiskTicks : RiskStep(r)
  \/ \E u \in UpdaterTicks : UpdaterStep(u)
  \/ \E m \in ManualSells : ManualSellStep(m)

SpecRisk == InitHeld /\ [][NextRisk]_vars

\* Every operation that trades: one Hunter tick, manual buys and sells and
\* the Risk Manager.
NextTrade ==
  \/ HunterStep(1)
  \/ \E m \in ManualBuys : ManualBuyStep(m)
  \/ \E r \in RiskTicks : RiskStep(r)
  \/ \E m \in ManualSells : ManualSellStep(m)

\* first run with a wallet set and room for two positions
InitTrade ==
  /\ InitEmpty
  /\ wallet = TRUE
  /\ config.maxConcurrentTrades = 2

SpecTrade == InitTrade /\ [][NextTrade]_vars

\* a later run, with or without a wallet key, on a database in which an
\* earlier run left one OPEN position
InitScan ==
  /\ InitTasks
  /\ config \in {c \in BuyConfigs : c.maxConcurrentTrades = 2}
  /\ wallet = config.walletKey
  /\ positions = BoughtPositions(<<"A">>)
  /\ history = BoughtLedger(<<"A">>)
  /\ swaps = <<[tokenAddress |-> "A", side |-> "BUY", ok |-> TRUE]>>

\* Scan-only mode next to trading mode: every operation that trades.
SpecScan == InitScan /\ [][NextTrade]_vars

\* Pricing: one Hunter tick buying and manual sells while Price Updater
\* ticks run.
NextPrice ==
  \/ HunterStep(1)
  \/ \E u \in UpdaterTicks : UpdaterStep(u)
  \/ \E m \in ManualSells : ManualSellStep(m)

SpecPrice == InitTrade /\ [][NextPrice]_vars

\* One Hunter cycle on its own: its calls of executeTrade are awaited one
\* after the other (453).
NextCycle == HunterCycleStep(1)

SpecCycle == InitCycle /\ [][NextCycle]_vars

\* Hunter ticks one after the other, Narrative scans and Risk ticks, until
\* stop() is called
NextHunt ==
  \/ CycleStep(1)
  \/ \E s \in ScannerTicks : ScannerStep(s)
  \/ \E r \in RiskTicks : RiskStep(r)
  \/ Stop

SpecHunt == InitHunt /\ [][NextHunt]_vars

\* Hunter ticks that may overlap while time passes
NextCool ==
  \/ \E c \in CycleTicks : CycleWatchStep(c)
  \/ Tick

SpecCool == InitHunt /\ [][NextCool]_vars

\* Hunter ticks over sixteen candidates, one after the other, until stop()
\* is called
NextMany ==
  \/ CycleManyStep(1)
  \/ Stop

SpecMany == InitHunt /\ [][NextMany]_vars

\* Life cycle: start() and stop() called in any order while Narrative
\* Scanner and Risk Manager ticks run.
NextLife ==
  \/ StartStep
  \/ Stop
  \/ \E s \in ScannerTicks : ScannerStep(s)
  \/ \E r \in RiskTicks : RiskStep(r)

SpecLife == InitLife /\ [][NextLife]_vars

\* A registered timer keeps firing (setInterval, 284-289), and a gateway
\* call awaited by start() or by a Narrative scan eventually returns.
SpecLifeFair ==
  /\ SpecLife
  /\ WF_vars(StartStep)
  /\ \A s \in ScannerTicks : WF_vars(ScannerStep(s))
  /\ \A r \in RiskTicks : WF_vars(RiskStart(r))

\* The stop-loss watch: the Risk Manager and the Price Updater on held
\* positions, until stop().
NextWatch ==
  \/ \E r \in RiskTicks : RiskStep(r)
  \/ \E u \in UpdaterTicks : UpdaterStep(u)
  \/ Stop

SpecWatch == InitHeld /\ [][NextWatch]_vars

\* executeSell returning success (345-352) to a Risk Manager tick
RiskSellOk(r) == RiskSell(r) /\ swaps'[Len(swaps')].ok

\* The risk timer keeps firing (setInterval, 287), a gateway call awaited
\* by a tick returns, and a sell that is tried again and again eventually
\* succeeds.
SpecWatchFair ==
  /\ SpecWatch
  /\ \A r \in RiskTicks :
       /\ WF_vars(RiskStart(r))
       /\ WF_vars(RiskLiq(r))
       /\ WF_vars(RiskHeat(r))
       /\ SF_vars(RiskSellOk(r))

(***************************************************************************)
(* Properties.                                                             *)
(***************************************************************************)
Last(q) == q[Len(q)]

\* the gateway answered a swap call in this step: a buy / a sell, ok or not
BuyAnswered(ok) ==
  /\ Len(swaps') = Len(swaps) + 1
  /\ Last(swaps').side = "BUY"
  /\ Last(swaps').ok = ok

SellAnswered(ok) ==
  /\ Len(swaps') = Len(swaps) + 1
  /\ Last(swaps').side = "SELL"
  /\ Last(swaps').ok = ok

\* no swap call is issued in this step
NoSwapIssued ==
  /\ \A h \in HunterTicks : hunter'[h].pc = "swap" => hunter[h].pc = "swap"
  /\ \A m \in ManualBuys : mbuy'[m].pc = "swap" => mbuy[m].pc = "swap"
  /\ \A m \in ManualSells : msell'[m].pc = "sell" => msell[m].pc = "sell"
  /\ \A r \in RiskTicks : risk'[r].pc = "sell" => risk[r] = risk'[r]

\* C1: in every reachable state the number of OPEN positions is at most
\* config.maxConcurrentTrades.
C1_OpenAtMostMaxConcurrent == OpenCount <= config.maxConcurrentTrades

\* C2: in every reachable state a token address has at most one OPEN
\* position row.
C2_OneOpenRowPerToken ==
  \A i, j \in OpenIds :
    positions[i].tokenAddress = positions[j].tokenAddress => i = j

\* C3: a call of executeTrade for a token that has an OPEN position is
\* skipped: the tick is back outside executeTrade with a skip logged, no row
\* is added to positions or trade_history and no swap call is issued.
C3_HeldTokenBuyIsSkipped ==
  [][\A h \in HunterTicks, t \in Tokens :
       (/\ hunter[h].pc = "rest"
        /\ hunter'[h] # hunter[h]
        /\ hunter'[h].token = t
        /\ Holding(t))
       => /\ hunter'[h].pc = "rest"
          /\ hunter'[h].log \in {"already holding", "max concurrent"}
          /\ positions' = positions
          /\ history' = history
          /\ NoSwapIssued]_vars

C3_SkippedWhileHolding ==
  \E h \in HunterTicks :
    /\ hunter[h].pc = "rest"
    /\ hunter[h].log = "already holding"
    /\ Holding(hunter[h].token)
    /\ OpenCount = 1
    /\ Len(history) = 1

\* C4: every swap call the gateway has answered has exactly one ledger row,
\* in the order of the answers, with the call's side and token and with
\* success = 1 exactly when the swap succeeded.
C4_EverySwapRecorded ==
  /\ Len(history) = Len(swaps)
  /\ \A k \in 1..Len(swaps) :
       /\ history[k].side = swaps[k].side
       /\ history[k].tokenAddress = swaps[k].tokenAddress
       /\ history[k].success = (IF swaps[k].ok THEN 1 ELSE 0)

C4_FailuresAndSuccessesRecorded ==
  \E i, j, k \in 1..Len(history) :
    /\ history[i].side = "BUY" /\ history[i].success = 0 /\ ~swaps[i].ok
    /\ history[j].side = "BUY" /\ history[j].success = 1 /\ swaps[j].ok
    /\ history[k].side = "SELL" /\ swaps[k].side = "SELL"

\* C5: when a buy swap fails, a BUY row with success = 0 and a non-empty
\* error is appended to the ledger, positions is left as it was, and the
\* step issues no further swap call (no retry).
C5_FailedBuyRecordedNoPosition ==
  [][BuyAnswered(FALSE)
       => /\ Len(history') = Len(history) + 1
          /\ SubSeq(history', 1, Len(history)) = history
          /\ Last(history').side = "BUY"
          /\ Last(history').tokenAddress = Last(swaps').tokenAddress
          /\ Last(history').success = 0
          /\ Last(history').error # ""
          /\ positions' = positions
          /\ NoSwapIssued]_vars

C5_FailedBuyHappened ==
  /\ Len(history) = 2
  /\ history[1].side = "BUY" /\ history[1].success = 1
  /\ history[2].side = "BUY" /\ history[2].success = 0
  /\ history[2].error = "Error"
  /\ Len(positions) = 1
  /\ \E h \in HunterTicks : hunter[h].log = "buy failed"

\* C6: when a sell swap fails, a SELL row with success = 0 is appended to
\* the ledger and no position row changes in any field.
C6_FailedSellLeavesPosition ==
  [][SellAnswered(FALSE)
       => /\ Len(history') = Len(history) + 1
          /\ SubSeq(history', 1, Len(history)) = history
          /\ Last(history').side = "SELL"
          /\ Last(history').tokenAddress = Last(swaps').tokenAddress
          /\ Last(history').success = 0
          /\ positions' = positions]_vars

C6_FailedSellStillOpen ==
  /\ Len(history) >= 2
  /\ Last(history).side = "SELL"
  /\ Last(history).success = 0
  /\ \E i \in OpenIds :
       /\ positions[i].tokenAddress = Last(history).tokenAddress
       /\ positions[i].exitTx = NULL
       /\ positions[i].exitTime = NULL

\* the rows a Risk Manager tick has yet to deal with when it resumes: all
\* it selects when it starts, else those after the one it was awaiting on
TickTodo(r) ==
  IF risk[r].pc = "idle" THEN RiskSnapshot ELSE Tail(risk[r].rem)

\* the tick r takes a step of its loop over the selected rows
TickLoops(r) ==
  /\ risk[r].pc \in {"idle", "liq", "sell"}
  /\ risk'[r] # risk[r]

\* C7: a Risk Manager tick that comes to a selected row with
\* pnl_pct <= -stopLossPct whose position is OPEN does not pass it over: it
\* calls closePosition(id, "STOPPED") and awaits the sell.  When that sell
\* returns, one SELL row for the position's token is appended to the
\* ledger, and if the swap succeeded the position is STOPPED with exit_time
\* and exit_tx set.
C7_StopLossClosesPosition ==
  [][\A r \in RiskTicks :
       /\ TickLoops(r) =>
            LET todo == TickTodo(r)
                passed == Len(todo) - Len(risk'[r].rem)
            IN \A k \in 1..Len(todo) :
                 (/\ todo[k].pnl_pct <= -config.stopLossPct
                  /\ positions'[todo[k].id].status = "OPEN")
                 => /\ k > passed
                    /\ k = passed + 1 =>
                         /\ risk'[r].pc = "sell"
                         /\ risk'[r].sell.id = todo[k].id
                         /\ risk'[r].sell.reason = "STOPPED"
       /\ (/\ risk[r].pc = "sell"
           /\ risk[r].sell.reason = "STOPPED"
           /\ Head(risk[r].rem).pnl_pct <= -config.stopLossPct
           /\ risk'[r] # risk[r])
          => LET id == risk[r].sell.id IN
               /\ Len(history') = Len(history) + 1
               /\ SubSeq(history', 1, Len(history)) = history
               /\ Last(history').side = "SELL"
               /\ Last(history').tokenAddress = positions[id].tokenAddress
               /\ Len(swaps') = Len(swaps) + 1
               /\ Last(history').success = (IF Last(swaps').ok THEN 1 ELSE 0)
               /\ Last(swaps').ok
                    => /\ positions'[id].status = "STOPPED"
                       /\ positions'[id].exitTime # NULL
                       /\ positions'[id].exitTx # NULL
                       /\ positions'[id].exitTx = Last(history').txHash]_vars

\* Scenario B: stopLossPct = 30, an OPEN position at pnl_pct = -31 was sold
\* by the tick and is STOPPED
C7_StoppedAtMinus31 ==
  /\ config.stopLossPct = 30
  /\ \E i \in Ids :
       /\ positions[i].status = "STOPPED"
       /\ positions[i].pnlPct = -31
       /\ positions[i].exitTime # NULL
       /\ positions[i].exitTx # NULL
       /\ Last(history).side = "SELL"
       /\ Last(history).success = 1
       /\ Last(history).tokenAddress = positions[i].tokenAddress
       /\ Last(history).txHash = positions[i].exitTx

\* C8: a sell or a risk check of a position that is not OPEN changes
\* nothing.  (a) manualSell of a row whose status is CLOSED, STOPPED or
\* TP_HIT returns null with positions, ledger and swap calls as they were.
\* (b) A Risk Manager tick selects OPEN rows only, and whenever it starts
\* awaiting a sell, the row it sells is OPEN at that moment: a row that is
\* not OPEN never gets a swap call from a tick.  (c) Outside the return of a
\* sell, no step of a tick or of manualSell writes positions or the ledger.
C8_TerminalPositionUntouched ==
  [][/\ \A m \in ManualSells :
          (/\ msell[m].pc = "idle"
           /\ msell'[m] # msell[m]
           /\ msell'[m].positionId \in Ids
           /\ positions[msell'[m].positionId].status # "OPEN")
          => /\ msell'[m].pc = "done"
             /\ msell'[m].result = "null"
             /\ positions' = positions
             /\ history' = history
             /\ swaps' = swaps
     /\ \A r \in RiskTicks :
          /\ (risk[r].pc = "idle" /\ risk'[r] # risk[r])
               => \A i \in Ids :
                    positions[i].status # "OPEN"
                    => \A k \in 1..Len(RiskSnapshot) : RiskSnapshot[k].id # i
          /\ (risk'[r].pc = "sell" /\ risk'[r] # risk[r])
               => /\ risk'[r].sell.id \in DOMAIN positions'
                  /\ positions'[risk'[r].sell.id].status = "OPEN"
          /\ (risk[r].pc # "sell" /\ risk'[r] # risk[r])
               => /\ positions' = positions
                  /\ history' = history
                  /\ swaps' = swaps]_vars

\* a manual sell of a position that an earlier sell closed has returned null
C8_SellOfTerminalRefused ==
  \E m \in ManualSells :
    /\ msell[m].pc = "done"
    /\ msell[m].result = "null"
    /\ msell[m].positionId \in Ids
    /\ positions[msell[m].positionId].status \in {"STOPPED", "TP_HIT", "CLOSED"}
    /\ Len(history) = Len(positions) + 1

\* C9: once a position's status is CLOSED, STOPPED or TP_HIT, its status,
\* exit_tx and exit_time never change again, whatever the interleaving of
\* Risk Manager ticks and manual sells.
C9_TerminalStatusFinal ==
  [][\A i \in Ids :
       positions[i].status # "OPEN"
       => /\ positions'[i].status = positions[i].status
          /\ positions'[i].exitTx = positions[i].exitTx
          /\ positions'[i].exitTime = positions[i].exitTime]_vars

\* C10: whenever a Risk Manager tick awaits a close of a row whose pnl_pct
\* meets both pnl_pct <= -stopLossPct and pnl_pct >= takeProfitPct, the
\* close was requested with reason STOPPED.
C10_StopLossBeforeTakeProfit ==
  \A r \in RiskTicks :
    (/\ risk[r].pc = "sell"
     /\ Head(risk[r].rem).pnl_pct <= -config.stopLossPct
     /\ Head(risk[r].rem).pnl_pct >= config.takeProfitPct)
    => risk[r].sell.reason = "STOPPED"

\* stopLossPct = takeProfitPct = 0 and a row at pnl_pct = 0 is being closed
C10_BothRulesMet ==
  \E r \in RiskTicks :
    /\ risk[r].pc = "sell"
    /\ config.stopLossPct = 0
    /\ config.takeProfitPct = 0
    /\ Head(risk[r].rem).pnl_pct = 0
    /\ risk[r].sell.reason = "STOPPED"

\* C11: every OPEN position has
\* pnl_pct = (current_price - entry_price) / entry_price * 100 in every
\* state, hence right after a Price Updater tick completes: for rows the tick
\* updated, rows whose fetch returned nothing and rows inserted before or
\* during the tick.
C11_PnlMatchesPrices ==
  \A i \in OpenIds :
    positions[i].pnlPct
      = PnlPct(positions[i].currentPrice, positions[i].entryPrice)

\* a tick has completed: it moved one OPEN row to price 200 / pnl 100, and a
\* row bought later is OPEN at its entry price
C11_TickCompleted ==
  /\ \A u \in UpdaterTicks : updater[u].pc = "idle"
  /\ \E i, j \in OpenIds :
       /\ i < j
       /\ positions[i].currentPrice = 200
       /\ positions[i].pnlPct = 100
       /\ positions[j].currentPrice = positions[j].entryPrice
       /\ positions[j].pnlPct = 0

\* C12: a start() call made with the reasoning-service key or the network
\* endpoint absent ends with a ConfigError, and leaves the orchestrator not
\* running, every agent idle, no scan run and no timer registered.
C12_MissingConfigRaisesConfigError ==
  (starter.pc = "done" /\ ~(config.openrouterKey /\ config.rpcUrl))
  => /\ starter.result = "ConfigError"
     /\ ~running
     /\ intervals = <<>>
     /\ \A a \in AgentIds : agents[a] = "idle"
     /\ \A s \in ScannerTicks : scanner[s].pc = "idle"
     /\ narratives = <<>>

\* C13: from a call of stop() until the next call of start(), the
\* orchestrator is not running and no repeating timer is registered, also
\* when stop() came while a start() call was awaiting its balance check or
\* its initial scans.
C13_StoppedStaysStopped == stopped => (~running /\ intervals = <<>>)

\* C14: from a call of stop() until the next call of start(), every agent's
\* status is idle, also when an operation that was in flight at the stop
\* completes afterwards.
C14_StoppedAgentsIdle ==
  stopped => \A a \in AgentIds : agents[a] = "idle"

\* C15: from a call of stop() until the next call of start(), no step writes
\* positions, trade_history or narratives.
C15_NoWriteAfterStop ==
  [][stopped => /\ positions' = positions
                /\ history' = history
                /\ narratives' = narratives]_vars

\* C20: a tick that ended in failure does not keep the agent's next tick
\* from starting.  A Narrative Scanner or Risk Manager tick that starts sets
\* the agent's status to running whatever it was; and whenever an agent's
\* status is error while the orchestrator is running, the status is
\* eventually running again unless the orchestrator stops running first.
C20_FailedTickDoesNotBlockNext ==
  /\ [][/\ \A s \in ScannerTicks :
             (scanner[s].pc = "idle" /\ scanner'[s].pc = "scan")
             => agents'["narrative"] = "running"
        /\ \A r \in RiskTicks :
             (risk[r].pc = "idle" /\ risk'[r].pc # "idle")
             => agents'["risk"] = "running"]_vars
  /\ \A a \in {"narrative", "risk"} :
       (agents[a] = "error" /\ running)
         ~> (agents[a] = "running" \/ ~running)

\* a Narrative tick has failed and the orchestrator is running with its
\* timers registered
C20_FailedWhileRunning ==
  /\ running
  /\ intervals # <<>>
  /\ ~stopped
  /\ agents["narrative"] = "error"
  /\ \A s \in ScannerTicks : scanner[s].pc = "idle"
  /\ starter.pc = "idle"

\* C16: in one Hunter cycle with maxConcurrentTrades = 1, a buy whose swap
\* succeeds opens the one position, for the token bought, and every later
\* call of executeTrade in the cycle, whatever the token and its score, is
\* skipped by the max-concurrent check: "max concurrent" is logged, no swap
\* call is issued, and positions and the ledger stay as they are.  At most
\* one position row exists, and it is OPEN.
C16_SecondBuySkippedByMaxConcurrent ==
  [][/\ BuyAnswered(TRUE)
          => /\ Len(positions') = 1
             /\ positions'[1].status = "OPEN"
             /\ positions'[1].tokenAddress = Last(swaps').tokenAddress
             /\ positions'[1].score = hunter[1].score
     /\ (/\ hunter[1].pc = "rest"
         /\ hunter'[1] # hunter[1]
         /\ OpenCount >= 1)
          => /\ hunter'[1].pc = "rest"
             /\ hunter'[1].log = "max concurrent"
             /\ positions' = positions
             /\ history' = history
             /\ swaps' = swaps
             /\ NoSwapIssued
     /\ Len(positions') <= 1
     /\ \A i \in DOMAIN positions' : positions'[i].status = "OPEN"]_vars

\* Scenario A: A was bought at score 85 and is the one OPEN position, with
\* one ledger row and one swap call; the call for B was skipped
C16_BSkippedAfterA ==
  /\ config.maxConcurrentTrades = 1
  /\ config.minScoreToTrade = 80
  /\ Len(positions) = 1
  /\ positions[1].tokenAddress = "A"
  /\ positions[1].score = 85
  /\ positions[1].status = "OPEN"
  /\ Len(history) = 1
  /\ Len(swaps) = 1
  /\ hunter[1] = RestBuy("B", "max concurrent")

\* C19: when executeTrade goes on from the wallet balance to the swap call,
\* the amount it passes is min(maxPositionSol, 0.3 * balance) and is not
\* below the dust floor; the ledger row of the answered swap carries that
\* amount.
C19_TradeSizeIsMinOfCapAndThirtyPct ==
  [][\A h \in HunterTicks :
       /\ (hunter[h].pc = "balance" /\ hunter'[h].pc = "swap")
            => /\ hunter'[h].tradeSize
                    = Min(config.maxPositionSol, (hunter'[h].solBal * 3) \div 10)
               /\ hunter'[h].tradeSize >= DustFloor
               /\ hunter'[h].solBal \in Balances
       /\ (hunter[h].pc = "swap" /\ hunter'[h].pc # "swap")
            => /\ Len(history') = Len(history) + 1
               /\ Last(history').side = "BUY"
               /\ Last(history').solAmount = hunter[h].tradeSize]_vars

\* a swap call for 600 (30% of a balance of 2000, under a cap of 1000) was
\* issued and answered, and a later call that found a balance of 100 was
\* refused
C19_SizedAndRefused ==
  /\ config.maxPositionSol = 1000
  /\ Len(history) = 1
  /\ history[1].solAmount = 600
  /\ Len(swaps) = 1
  /\ hunter[1].log = "insufficient"

\* C18: manualBuy is refused under the conditions that make executeTrade
\* refuse: it issues its swap call only when fewer than maxConcurrentTrades
\* positions are OPEN, the token has no OPEN position, and the amount is at
\* least the dust floor and at most maxPositionSol.
C18_ManualBuyRefusedLikeExecutorBuy ==
  [][\A m \in ManualBuys :
       (mbuy[m].pc # "swap" /\ mbuy'[m].pc = "swap")
       => /\ OpenCount < config.maxConcurrentTrades
          /\ ~Holding(mbuy'[m].token)
          /\ mbuy'[m].solAmount >= DustFloor
          /\ mbuy'[m].solAmount <= config.maxPositionSol]_vars

\* C17: while no wallet is set, no step issues a swap call, appends a
\* ledger row, or creates or changes a position, whichever of the Hunter,
\* the Risk Manager, manualBuy or manualSell takes it.
C17_NoWalletNoTrade ==
  [][~wallet => /\ positions' = positions
                /\ history' = history
                /\ swaps' = swaps
                /\ NoSwapIssued]_vars

\* without a wallet, a manual buy and a manual sell of the OPEN position
\* have both returned null and the Risk Manager has started a tick; tables
\* are as the earlier run left them
C17_RefusedWithoutWallet ==
  /\ ~wallet
  /\ \E m \in ManualBuys : mbuy[m].pc = "done" /\ mbuy[m].result = "null"
  /\ \E m \in ManualSells :
       /\ msell[m].pc = "done"
       /\ msell[m].result = "null"
       /\ msell[m].positionId \in OpenIds
  /\ \E r \in RiskTicks : risk[r].pc = "liq"
  /\ Len(positions) = 1
  /\ Len(history) = 1

\* C28: the ledger is append-only: a step leaves trade_history as it is or
\* appends one row to it; no existing row is changed or removed.
C28_LedgerAppendOnly ==
  [][\/ history' = history
     \/ /\ Len(history') = Len(history) + 1
        /\ SubSeq(history', 1, Len(history)) = history]_vars

\* the ledger has grown to three rows: a failed buy, a buy and a sell
C28_LedgerGrew ==
  /\ Len(history) = 3
  /\ history[1].side = "BUY" /\ history[1].success = 0
  /\ history[2].side = "BUY" /\ history[2].success = 1
  /\ history[3].side = "SELL"

\* q is p or what is left of p after some of its first elements
IsSuffix(q, p) == \E k \in 1..(Len(p) + 1) : q = SubSeq(p, k, Len(p))

\* C21: in a Price Updater tick, a fetch that returns nothing leaves the
\* position's row as it was and the tick goes on: the tick takes every
\* position OPEN at its start in turn, and each one whose fetch succeeds gets
\* the fetched price and the profit-and-loss computed from it.
C21_FailedFetchSkipsOnlyItsRow ==
  [][\A u \in UpdaterTicks :
       LET t == updater[u]
           n == updater'[u]
           id == Head(t.rem)
       IN  (n # t) =>
             /\ (t.pc = "idle") => (n.pc = "fetch" /\ n.rem = OpenFrom(1))
             /\ (t.pc = "fetch") =>
                  /\ n.pc = "sleep" /\ n.rem = t.rem
                  /\ IF n.tokenData.found
                       THEN positions' =
                              [positions EXCEPT
                                 ![id].currentPrice = n.tokenData.value,
                                 ![id].pnlPct =
                                   PnlPct(n.tokenData.value,
                                          positions[id].entryPrice)]
                       ELSE positions' = positions
             /\ (t.pc = "sleep") =>
                  IF Tail(t.rem) = <<>>
                    THEN n.pc = "idle"
                    ELSE n.pc = "fetch" /\ n.rem = Tail(t.rem)]_vars

\* the fetch for the first of two positions returned nothing: its row is as
\* it was bought, and the tick still holds the second position
C21_FirstFetchFailed ==
  \E u \in UpdaterTicks :
    /\ updater[u].pc = "sleep"
    /\ updater[u].rem = <<1, 2>>
    /\ ~updater[u].tokenData.found
    /\ positions[1].currentPrice = positions[1].entryPrice
    /\ positions[1].pnlPct = 0

\* C30: in a Risk tick a selected position gets at most one close attempt;
\* the liquidity is fetched only for a position that matched neither
\* stop-loss nor take-profit; that fetch leads to a close with reason STOPPED
\* exactly when it returned a liquidity below 3000 (and the position can
\* still be closed); a fetch that returned nothing leads to no close.
C30_OneCloseAttemptPerPosition ==
  [][\A r \in RiskTicks :
       LET t == risk[r]
           n == risk'[r]
           closes == n.pc = "sell" /\ n.rem = t.rem
       IN  (n # t) =>
             /\ (n.pc = "liq") =>
                  /\ Head(n.rem).pnl_pct > -config.stopLossPct
                  /\ Head(n.rem).pnl_pct < config.takeProfitPct
             /\ (n.pc = "sell") => n.sell.id = Head(n.rem).id
             /\ (t.pc = "liq") =>
                  /\ closes <=>
                       /\ n.tokenData.found
                       /\ n.tokenData.value < 3000
                       /\ closePositionProceeds(positions, Head(t.rem).id)
                  /\ closes => n.sell.reason = "STOPPED"
                  /\ ~closes => IsSuffix(n.rem, Tail(t.rem))
             /\ (t.pc = "sell") => IsSuffix(n.rem, Tail(t.rem))]_vars

\* a liquidity of 2000 was fetched for a position with a profit-and-loss
\* between the two thresholds, and the tick is closing it as STOPPED
C30_ClosingOnLowLiquidity ==
  \E r \in RiskTicks :
    /\ risk[r].pc = "sell"
    /\ risk[r].tokenData = [found |-> TRUE, value |-> 2000]
    /\ risk[r].sell.reason = "STOPPED"
    /\ Head(risk[r].rem).pnl_pct = 0
    /\ config.stopLossPct = 30

\* C29: start() begins its initial Hunter scan only when its initial
\* Narrative scan is over, and registers its timers only when both are over
\* (the Hunter scan returns at once if stop() was called meanwhile): exactly
\* four, Narrative every 2 x scanInterval, Hunter every scanInterval, Risk
\* every 30 s, Price Updater every 20 s; a timer tick starts only while its
\* timer is registered.
C29_TimersAfterBothInitialScans ==
  [][/\ (starter'.pc = "hunter") => (starter.pc \in {"narrative", "hunter"})
     /\ (intervals' # intervals) =>
          \/ intervals' = <<>>
          \/ /\ intervals' = intervals \o
                  << [task |-> "narrative", ms |-> 120000],
                     [task |-> "hunter", ms |-> 60000],
                     [task |-> "risk", ms |-> 30000],
                     [task |-> "updater", ms |-> 20000] >>
             /\ starter'.pc = "done"
             /\ \/ starter.pc = "hunter"
                \/ starter.pc = "narrative" /\ ~running
     /\ \A s \in ScannerTicks :
          (scanner[s].pc = "idle" /\ scanner'[s].pc # "idle")
            => Scheduled("narrative")
     /\ \A r \in RiskTicks :
          (risk[r].pc = "idle" /\ risk'[r].pc # "idle")
            => Scheduled("risk")]_vars

\* a start() that no stop() interrupted has returned: the swarm is running
\* with four timers
C29_StartedWithFourTimers ==
  /\ starter.pc = "done"
  /\ running
  /\ ~stopped
  /\ Len(intervals) = 4

\* C24: whenever another task can run, the narratives table is empty or holds
\* the complete narrative set of one analysis.
C24_NarrativesOfOneWholeCycle ==
  \/ narratives = <<>>
  \/ \E a \in Analyses : narratives = [i \in 1..Len(a) |-> a[i].name]

\* C25: the Hunter sends an address to the reasoning gateway for a score only
\* if it has not sent that address in the five minutes before, whatever the
\* interleaving of its ticks.
C25_NoRescoreInsideCoolDown ==
  [][\A c \in CycleTicks :
       (cycles'[c].pc = "score" /\ cycles[c].pc # "score") =>
         LET address == Head(cycles'[c].rem) IN
           \/ scoreCalls[address] = NULL
           \/ clock - scoreCalls[address] >= 5]_vars

\* C26: one Hunter tick makes at most 15 score calls.
C26_AtMostFifteenScoreCalls ==
  \A c \in CycleTicks : cycles[c].calls <= 15

\* a tick that found sixteen candidates has ended after 15 score calls, the
\* sixteenth candidate never sent for a score
C26_FifteenOfSixteenScored ==
  \E c \in CycleTicks :
    /\ cycles[c].pc = "idle"
    /\ cycles[c].calls = 15
    /\ scoreCalls["O"] # NULL
    /\ scoreCalls["P"] = NULL

\* C27: when a score has come back, the tick calls executeTrade for the
\* candidate exactly when the signal is BUY, the score is at least
\* minScoreToTrade and a wallet is set; it sends the next candidate for a
\* score only when no executeTrade call of its own is in progress, so its
\* buys never overlap.
C27_BuyExactlyOnSignalThenNext ==
  [][LET t == cycles[1]
         n == cycles'[1]
     IN  (n # t) =>
           /\ (t.pc = "score") =>
                /\ (n.pc = "buy") <=>
                     /\ n.result.object
                     /\ n.result.signal = "BUY"
                     /\ n.result.score >= config.minScoreToTrade
                     /\ wallet
                /\ (n.pc = "buy") =>
                     /\ hunter[1].pc = "rest"
                     /\ hunter'[1].token = Head(t.rem)
                     /\ hunter'[1].pc \in {"rest", "balance"}
                /\ (n.pc # "buy") => hunter'[1] = hunter[1]
           /\ (n.pc = "score") => hunter[1].pc = "rest"]_vars

\* the tick bought A, the swap confirmed and the position written, and has
\* now sent B for a score
C27_SecondScoredAfterFirstBought ==
  /\ cycles[1].pc = "score"
  /\ cycles[1].rem = <<"B">>
  /\ hunter[1] = RestBuy("A", "bought")
  /\ Len(positions) = 1
  /\ positions[1].tokenAddress = "A"

\* C23: a reasoning response that does not parse is no failure.  llmScore
\* turns it into the sentinel score 0 / SKIP; the Hunter tick that gets the
\* sentinel records the candidate, calls no executeTrade and goes on to its
\* delay.  llmNarrativeAnalysis turns it into an empty analysis; the scan that
\* gets it leaves the table empty and the agent running, not in error.
C23_UnparseableResponseIsNoFailure ==
  [][/\ \A raw \in ScoreResponses :
          ~raw.parses =>
            llmScore(raw) = [object |-> TRUE, score |-> 0, signal |-> "SKIP"]
     /\ LET t == cycles[1]
            n == cycles'[1]
        IN  (t.pc = "score" /\ n # t /\ n.result.signal = "SKIP") =>
              /\ n.pc = "delay" /\ n.rem = t.rem
              /\ scanned'[Head(t.rem)].last_seen = clock
              /\ UNCHANGED <<hunter, positions, history, agents>>
     /\ \A o \in ScanOutcomes :
          (o.kind = "ok" /\ ~o.raw.parses) =>
            /\ llmNarrativeAnalysis(o.raw).narratives = <<>>
            /\ ~scanThrew(o)
            /\ scanNarratives(o) = <<>>
            /\ scanStatus(agents, o)["narrative"] = "running"]_vars

\* the score for A came back unparseable: the tick holds the sentinel, has
\* recorded A and is in its delay, with B still to come
C23_SentinelThenDelay ==
  /\ cycles[1].pc = "delay"
  /\ cycles[1].rem = <<"A", "B">>
  /\ cycles[1].result = [object |-> TRUE, score |-> 0, signal |-> "SKIP"]
  /\ scanned["A"].last_seen = clock
  /\ hunter[1].pc = "rest"

\* the Risk tick n has gone on over rest: the rows it passed over matched a
\* rule and closePosition refused them
RowsPassed(n, rest) ==
  /\ IsSuffix(n.rem, rest)
  /\ \A i \in 1..(Len(rest) - Len(n.rem)) :
       /\ RiskRule(rest[i]) # "LIQUIDITY"
       /\ ~closePositionProceeds(positions', rest[i].id)

\* C22: a failure on one item does not end the batch.  A Hunter tick whose
\* score call or executeTrade call ended, failed or not, keeps its remaining
\* candidates and goes on after its delay with the next candidate not in its
\* cool-down (unless stop() was called); a Risk tick whose liquidity fetch or
\* sell ended, failed or not, goes on with the next position.
C22_FailedItemDoesNotEndBatch ==
  [][/\ LET t == cycles[1]
            n == cycles'[1]
            rest == Tail(t.rem)
        IN  (n # t) =>
              /\ (t.pc = "score") => (n.pc \in {"delay", "buy"} /\ n.rem = t.rem)
              /\ (t.pc \in {"delay", "buy"}) =>
                   /\ n.pc \in {"score", "idle"}
                   /\ IsSuffix(n.rem, rest)
                   /\ \A i \in 1..(Len(rest) - Len(n.rem)) :
                        ~running \/ Cooling(rest[i])
     /\ (cycles[1].pc = "buy" /\ hunter'[1] # hunter[1])
          => cycles'[1] = cycles[1]
     /\ \A r \in RiskTicks :
          LET t == risk[r]
              n == risk'[r]
          IN  (n # t /\ t.pc \in {"liq", "sell"}) =>
                \/ t.pc = "liq" /\ n.pc = "sell" /\ n.rem = t.rem
                \/ RowsPassed(n, Tail(t.rem))]_vars

\* the buy of A failed and the tick has gone on to B
C22_NextItemAfterFailure ==
  /\ cycles[1].pc = "score"
  /\ cycles[1].rem = <<"B">>
  /\ hunter[1] = RestBuy("A", "buy failed")
  /\ history[Len(history)].success = 0

\* C31: ticks of one agent may overlap.  While the swarm is running with its
\* Hunter timer registered, a Hunter tick can start whatever the other Hunter
\* ticks are doing: nothing makes it wait for a tick that is still awaiting a
\* gateway call.
C31_TickStartsWhateverOthersDo ==
  \A c \in CycleTicks :
    (Scheduled("hunter") /\ running /\ cycles[c].pc = "idle"
       /\ hunter[c].pc = "rest")
      => ENABLED CycleStart(c)

\* a Hunter tick has started and is fetching the market data while an
\* earlier tick is still awaiting the score for A
C31_SecondTickDuringScoreCall ==
  /\ cycles[1].pc = "score"
  /\ Head(cycles[1].rem) = "A"
  /\ cycles[2].pc = "fetch"

\* C32: the row of an address changes exactly when a score for it has come
\* back to a tick; the first time the row gets times_seen 1 and its
\* first_seen, every later time times_seen grows by exactly 1 and first_seen
\* stays: times_seen is the number of scorings completed for the address.
C32_TimesSeenCountsScorings ==
  [][\A a \in Addresses :
       LET completed ==
             \E c \in CycleTicks :
               /\ cycles[c].pc = "score" /\ Head(cycles[c].rem) = a
               /\ cycles'[c].pc # "score" /\ cycles'[c].result.object
       IN  /\ completed <=> (scanned'[a] # scanned[a])
           /\ completed =>
                IF scanned[a] = NoRow
                  THEN /\ scanned'[a].times_seen = 1
                       /\ scanned'[a].first_seen = clock
                  ELSE /\ scanned'[a].times_seen = scanned[a].times_seen + 1
                       /\ scanned'[a].first_seen = scanned[a].first_seen]_vars

\* A was scored in the first minute and again once its cool-down was over
C32_ScoredTwice ==
  /\ scanned["A"].times_seen = 2
  /\ scanned["A"].first_seen = 1
  /\ scanned["A"].last_seen = 6

\* C33: while the swarm runs with a wallet, an OPEN position whose pnl_pct
\* is at or below -stopLossPct is eventually STOPPED, unless its pnl_pct
\* rises above the threshold, stop() is called or a tick is left awaiting a
\* sell the gateway never answers; the risk timer keeps firing and a sell
\* tried again and again eventually succeeds.
C33_StopLossEventuallyStopped ==
  \A i \in 1..2 :
    (/\ i \in Ids
     /\ running /\ wallet
     /\ positions[i].status = "OPEN"
     /\ positions[i].pnlPct <= -config.stopLossPct)
    ~> (/\ i \in Ids
        /\ \/ positions[i].status = "STOPPED"
           \/ positions[i].pnlPct > -config.stopLossPct
           \/ ~running
           \/ \E r \in RiskTicks : risk[r].pc = "sell" /\ ~SwapAnswers)

\* the same with "leaves OPEN" in place of "is STOPPED"
StopLossEventuallyLeavesOpen ==
  \A i \in 1..2 :
    (/\ i \in Ids
     /\ running /\ wallet
     /\ positions[i].status = "OPEN"
     /\ positions[i].pnlPct <= -config.stopLossPct)
    ~> (/\ i \in Ids
        /\ \/ positions[i].status # "OPEN"
           \/ positions[i].pnlPct > -config.stopLossPct
           \/ ~running
           \/ \E r \in RiskTicks : risk[r].pc = "sell" /\ ~SwapAnswers)

\* C34: a Price Updater tick writes to OPEN positions only: in the step in
\* which a price fetch of a tick returns, every position that is not OPEN
\* keeps its current_price and pnl_pct, also when it was OPEN at the start
\* of the tick and was closed since.
C34_UpdaterWritesOpenRowsOnly ==
  [][\A u \in UpdaterTicks :
       (updater[u].pc = "fetch" /\ updater'[u].pc = "sleep")
       => \A i \in Ids :
            positions[i].status # "OPEN"
            => /\ positions'[i].currentPrice = positions[i].currentPrice
               /\ positions'[i].pnlPct = positions[i].pnlPct]_vars

\* the SELL rows with success = 1 recorded for the token of position i (in
\* the monitoring specifications each token is held by one position)
SoldRows(i) ==
  {k \in DOMAIN history :
     /\ history[k].side = "SELL"
     /\ history[k].success = 1
     /\ history[k].tokenAddress = positions[i].tokenAddress}

\* C35: a position is sold at most once: the ledger never holds more than
\* one SELL row with success = 1 for it, however Risk Manager ticks and
\* manual sells interleave.
C35_PositionSoldAtMostOnce ==
  \A i \in Ids : Cardinality(SoldRows(i)) <= 1

\* C36: in every reachable state a position has exit_time and exit_tx set
\* if and only if its status is not OPEN.
C36_ExitSetIffNotOpen ==
  \A i \in Ids :
    /\ positions[i].status # "OPEN"
         <=> (positions[i].exitTime # NULL /\ positions[i].exitTx # NULL)
    /\ positions[i].status = "OPEN"
         <=> (positions[i].exitTime = NULL /\ positions[i].exitTx = NULL)

\* two positions were bought and one of them was sold: it carries the hash
\* and the time of its sale, the other is OPEN with neither
C36_OneSoldOneOpen ==
  \E i, j \in Ids :
    /\ positions[i].status \in {"CLOSED", "STOPPED", "TP_HIT"}
    /\ positions[i].exitTx = Last(history).txHash
    /\ positions[i].exitTime # NULL
    /\ Last(history).side = "SELL"
    /\ Last(history).success = 1
    /\ positions[j].status = "OPEN"
    /\ positions[j].exitTx = NULL
    /\ positions[j].exitTime = NULL

\* the BUY rows with success = 1
BoughtRows ==
  {k \in DOMAIN history : history[k].side = "BUY" /\ history[k].success = 1}

\* C37: positions are created only by a successful buy swap: in every
\* reachable state there are as many position rows as BUY rows with
\* success = 1 in the ledger, and every position's token has such a row.
C37_PositionsMatchSuccessfulBuys ==
  /\ Len(positions) = Cardinality(BoughtRows)
  /\ \A i \in Ids :
       \E k \in BoughtRows :
         /\ history[k].tokenAddress = positions[i].tokenAddress
         /\ history[k].txHash = positions[i].entryTx

\* two buys succeeded and one failed: two positions, three BUY rows
C37_TwoBoughtOneFailed ==
  /\ Len(positions) = 2
  /\ Len(history) = 3
  /\ \A k \in DOMAIN history : history[k].side = "BUY"
  /\ \E k \in DOMAIN history :
       /\ history[k].success = 0
       /\ \E i \in Ids : positions[i].tokenAddress = history[k].tokenAddress
  /\ \E i \in Ids : positions[i].narrative = "Manual"
  /\ \E i \in Ids : positions[i].narrative # "Manual"

\* C38: manualSell returns a result with success = true only if the sell
\* swap of that call succeeded and the call moved the position from OPEN to
\* CLOSED; when the swap fails the result does not report success.
C38_ManualSellSuccessMeansSold ==
  [][\A m \in ManualSells :
       (/\ msell[m].pc # "done"
        /\ msell'[m].pc = "done"
        /\ msell'[m].result = "success")
       => /\ msell[m].pc = "sell"
          /\ Len(swaps') = Len(swaps) + 1
          /\ Last(swaps').side = "SELL"
          /\ Last(swaps').ok
          /\ positions[msell[m].positionId].status = "OPEN"
          /\ positions'[msell[m].positionId].status = "CLOSED"]_vars

\* the Hunter tick c calls executeBuy in this step
BuyInitiated(c) == hunter[c].pc # "swap" /\ hunter'[c].pc = "swap"

\* the Risk Manager tick r calls executeSell in this step
SellInitiated(r) ==
  /\ risk'[r].pc = "sell"
  /\ risk[r].pc = "sell" => risk'[r].rem # risk[r].rem

\* C39: once stop() has been called no agent tick initiates a buy or sell
\* swap call: a Hunter tick that was awaiting a score does not go on to
\* buy, a Risk Manager tick inside its loop does not go on to sell.
C39_NoSwapInitiatedAfterStop ==
  [][stopped =>
       /\ \A c \in CycleTicks : ~BuyInitiated(c)
       /\ \A r \in RiskTicks : ~SellInitiated(r)]_vars

====
